---------------------------- MODULE Spec2Model ----------------------------
(***************************************************************************)
(* A model of the libwsv5 connection engine (src/library.c): caller        *)
(* threads inside the public API, the background event thread, the         *)
(* pending-request list with its per-entry mutex and condition variable,   *)
(* the five connection mutexes, the transport (libwebsockets) and the      *)
(* server behind it.                                                       *)
(*                                                                         *)
(* Time is kept relative: every pending entry carries its age (now minus   *)
(* its timestamp) and every waiter the time left to its deadline; Tick     *)
(* advances both.  Heap objects live in slots; free() returns a slot to    *)
(* the allocator, which may hand it out again, and a thread that still     *)
(* holds a pointer to a freed slot is recorded in dangling.                *)
(***************************************************************************)
EXTENDS Integers, Sequences, FiniteSets, TLC

(* ------------------------------ bounds -------------------------------- *)
NCallers == 2
NHandshakeCallers == 1
MaxCalls == 1
MaxInbound == 3
TickStep == 31
LongTimeout == 40
RequestLen == 2
IdentifyLen == 3
InboundLen == 1
LongLen == 30
RecvBufferSize == 4
MaxMessages == 3
MaxMessageLen == 6

(* -------------------------- program constants ------------------------- *)
OBSWS_MAX_PENDING_REQUESTS == 256
SweepAge == 30
RecvTimeoutDefault == 5
ReconnectDelayDefault == 1000

\* obsws_config_init, line 1377: config->auto_reconnect; no statement of
\* the library reads it
auto_reconnect == TRUE

VARIABLES
    state,          \* conn->state
    mtx,            \* owner of each connection mutex
    link,           \* the transport's view of the socket
    wsi,            \* conn->wsi is non-NULL
    heap,           \* pending_request_t objects, by slot
    pending,        \* conn->pending_requests, head first
    cpc,            \* program counter of each caller thread
    loc,            \* locals of each caller thread
    last,           \* what each caller's last call returned
    iopc,           \* program counter of the event thread
    io,             \* locals of the event thread
    wire,           \* request frames the server holds and has not answered
    tx,             \* what the transport was given: frames and bytes
    stats,          \* conn->stats
    rng,            \* position of rand() in its sequence
    lib,            \* g_library_initialized and the second srand() was seeded in
    calls,          \* API calls each caller thread has started
    inbound,        \* frames the server has sent unasked so far
    dangling,       \* threads holding a pointer to a freed pending_request_t
    ub,             \* undefined behaviour that has happened
    should_exit,    \* conn->should_exit
    mpc,            \* program counter of the thread that tears down
    freed,          \* the connection object has been freed
    current_scene,  \* conn->current_scene
    hs,             \* handshake: auth_required, challenge, salt, whether
                    \* config.password is set, whether Identify carries
                    \* an authentication string
    obs_scene,      \* the program scene of the OBS instance behind the server
    send_buffer,    \* the frame in conn->send_buffer
    authcall,       \* generate_auth_response: its arguments and locals, and
                    \* the authentication string handed to Identify
    reconnect,      \* config.reconnect_delay_ms, conn->reconnect_attempts
                    \* and conn->current_reconnect_delay
    callbacks,      \* the user callbacks: the arguments of the last call of
                    \* state_callback, the event type event_callback was
                    \* called with by the handler that is running, the
                    \* locks the calling thread held at the last callback,
                    \* and g_debug_level
    recv            \* conn->recv_buffer up to recv_buffer_used, what the
                    \* last receive callback handed to
                    \* handle_websocket_message, and how far the server is
                    \* in the message it is sending

teardownVars == <<should_exit, mpc, freed>>
connVars == <<current_scene, hs, obs_scene, send_buffer, authcall, reconnect,
             recv>>
extVars == <<connVars, callbacks>>

vars == <<state, mtx, link, wsi, heap, pending, cpc, loc, last, iopc, io,
          wire, tx, stats, rng, lib, calls, inbound, dangling, ub,
          teardownVars, extVars>>

(* ------------------------------ threads ------------------------------- *)
Callers == DOMAIN cpc
Slots == DOMAIN heap
T(c) == <<"caller", c>>
IoThread == <<"io", 0>>
NoThread == <<"none", 0>>
NoSlot == 0

LockNames == {"state", "send", "requests", "stats", "scene"}

States == {"Disconnected", "Connecting", "Authenticating", "Connected", "Error"}

(* ------------------------------ responses ----------------------------- *)
NoData == [to |-> 0, scene |-> "none"]
NullResponse == [null |-> TRUE, success |-> FALSE, status_code |-> 0,
                 error_message |-> "", response_data |-> NoData]
\* calloc(1, sizeof(obsws_response_t))
EmptyResponse == [null |-> FALSE, success |-> FALSE, status_code |-> 0,
                  error_message |-> "", response_data |-> NoData]

FreeSlot == [alloc |-> FALSE, request_id |-> 0, response |-> NullResponse,
             completed |-> FALSE, age |-> 0, mutex |-> NoThread]

NoLocals == [op |-> "none", req |-> NoSlot, request_id |-> 0, result |-> "OK",
             left |-> 0, wait_result |-> "none", signalled |-> FALSE,
             scene |-> "none", response |-> NullResponse]

NoReturn == [op |-> "none", result |-> "none", request_id |-> 0,
             response |-> NullResponse]

Msg(op) == [op |-> op, has_id |-> FALSE, request_id |-> 0, has_status |-> FALSE,
            result |-> FALSE, to |-> 0, scene |-> "none", auth |-> "none",
            etype |-> "none"]

\* the locals of the event thread: the entry and the message a response
\* handler works on, and the entries the sweep found older than the bound
\* at the time it read the clock
IoIdle == [req |-> NoSlot, msg |-> Msg("none"), stale |-> {}]

\* the handshake fields of a connection that has seen no Hello (lines
\* 1440 and 1447-1449 of obsws_connect), with or without a password
NoHandshake(password) ==
    [auth_required |-> FALSE, challenge |-> "NULL", salt |-> "NULL",
     password |-> password, authentication |-> FALSE]

\* what conn->send_buffer holds: nothing yet, a request, or Identify
NoFrame == [kind |-> "none", request_id |-> 0, from |-> 0, op |-> "none",
            scene |-> "none"]
IdentifyFrame == [NoFrame EXCEPT !.kind = "identify"]

\* calloc and line 1456 of obsws_connect: no reconnection has been tried
\* and the delay before the first one is the configured one
NoReconnect(reconnect_delay_ms) ==
    [reconnect_delay_ms |-> reconnect_delay_ms, reconnect_attempts |-> 0,
     current_reconnect_delay |-> reconnect_delay_ms]

\* the receive buffer is empty and the server is about to send the first
\* byte of its first message; a byte is known by the message it belongs to
\* and its position in it
NoReceive == [recv_buffer |-> <<>>, message |-> <<>>, msg |-> 1, sent |-> 0]

\* a connection configured with a state, an event and a log callback, none
\* of them called yet, and the debug level the library starts with
\* (line 253)
NoCallbacks == [state_callback |-> <<>>, event_callback |-> "none",
                held |-> {}, debug_level |-> "NONE"]

\* generate_auth_response has not been called; strings are sequences of
\* bytes
NoAuthCall == [pc |-> "none", password |-> <<>>, salt |-> <<>>,
               challenge |-> <<>>, secret |-> <<>>, auth_response |-> <<>>,
               authentication |-> <<>>]

(* ------------------------------ locking ------------------------------- *)
Min(a, b) == IF a < b THEN a ELSE b
Max(a, b) == IF a > b THEN a ELSE b

\* the age of an entry and the time left to a deadline after d more seconds
Later(age, d) == Min(age + d, SweepAge + 1)
Left(left, d) == Max(left - d, 0)

\* pthread_mutex_lock on a connection mutex: enabled when the mutex is free.
\* A critical section that takes no further lock is one step, enabled when
\* its mutex is free; a section that goes on to take another lock keeps
\* its mutex over several steps.
Free(l) == mtx[l] = NoThread
Lock(l, t) == Free(l) /\ mtx' = [mtx EXCEPT ![l] = t]
Unlock(l, t) == mtx' = [mtx EXCEPT ![l] = NoThread]
Held(t) == {l \in LockNames : mtx[l] = t}

\* the slots the allocator can hand out
FreeSlots == {s \in Slots : ~heap[s].alloc}

\* free(target): threads other than t that still point at the slot dangle
Danglers(s, t) ==
    {T(c) : c \in {d \in Callers : T(d) /= t /\ loc[d].req = s}}
        \cup (IF IoThread /= t /\ io.req = s THEN {IoThread} ELSE {})

(* ------------------------------- Init --------------------------------- *)
\* the state obsws_connect leaves behind (lines 1425-1515), for a
\* configuration with or without a password
InitConnWith(password, reconnect_delay_ms) ==
    /\ state = "Disconnected"
    /\ mtx = [l \in LockNames |-> NoThread]
    /\ link = "connecting"
    /\ wsi = TRUE
    /\ pending = <<>>
    /\ iopc = "io_top"
    /\ io = IoIdle
    /\ wire = {}
    /\ tx = [frames |-> 0, bytes |-> 0]
    /\ stats = [messages_sent |-> 0, bytes_sent |-> 0,
                messages_received |-> 0, bytes_received |-> 0,
                connected_since |-> Later(SweepAge, TickStep),
                reconnect_count |-> 0]
    /\ rng = 0
    /\ lib = [initialized |-> TRUE, same_second |-> TRUE]
    /\ inbound = 0
    /\ dangling = {}
    /\ ub = {}
    /\ should_exit = FALSE
    /\ mpc = "idle"
    /\ freed = FALSE
    /\ current_scene = "NULL"
    /\ hs = NoHandshake(password)
    /\ obs_scene = "A"
    /\ send_buffer = NoFrame
    /\ authcall = NoAuthCall
    /\ reconnect = NoReconnect(reconnect_delay_ms)
    /\ recv = NoReceive
    /\ callbacks = NoCallbacks

InitConn == InitConnWith(TRUE, ReconnectDelayDefault)

\* n threads of the application, none of them inside the library, and a
\* heap with room for n entries
Threads(n) ==
    /\ heap = [s \in 1..n |-> FreeSlot]
    /\ cpc = [c \in 1..n |-> "idle"]
    /\ loc = [c \in 1..n |-> NoLocals]
    /\ last = [c \in 1..n |-> NoReturn]
    /\ calls = [c \in 1..n |-> 0]

Init == InitConn /\ Threads(NHandshakeCallers)

(* --------------------------- shared helpers --------------------------- *)
\* the process has not faulted and the connection object has not been freed
Alive == "crash" \notin ub /\ ~freed

\* the sequence without its element at position i
RemoveAt(seq, i) == SubSeq(seq, 1, i - 1) \o SubSeq(seq, i + 1, Len(seq))
Positions(seq, s) == {i \in 1..Len(seq) : seq[i] = s}
First(S) == CHOOSE i \in S : \A j \in S : i <= j

Timeouts == {0, LongTimeout}
ArgKinds == {"ok", "null_type", "null_response"}
WriteResults == {"ok", "failed"}
Scenes == {"A", "B"}

\* a use of a pending_request_t through a pointer: a thread whose pointer
\* dangles touches freed memory or, when the allocator has handed the slot
\* out again, the entry of another call
Dangles(t) == t \in dangling
EntryFree(s) == heap[s].mutex = NoThread

\* pthread_cond_broadcast(&req->cond): the threads waiting on the entry
\* whose deadline has not passed (a waiter past its deadline has left the
\* condition variable with ETIMEDOUT and waits for the mutex)
Broadcast(s) ==
    [c \in Callers |->
        IF cpc[c] = "sr_waiting" /\ loc[c].req = s /\ loc[c].left > 0
        THEN [loc[c] EXCEPT !.signalled = TRUE] ELSE loc[c]]

(* A public call returns: its outcome is kept in last[c].                  *)
Return(c, op, result, resp) ==
    /\ cpc' = [cpc EXCEPT ![c] = "idle"]
    /\ last' = [last EXCEPT ![c] = [op |-> op, result |-> result,
                                    request_id |-> loc[c].request_id,
                                    response |-> resp]]
    /\ loc' = [loc EXCEPT ![c] = NoLocals]

(* obsws_send_request returns: to the application, or into the scene       *)
(* operation that called it.                                               *)
SendRequestReturns(c, result, resp) ==
    IF loc[c].op = "send"
    THEN Return(c, "send", result, resp)
    ELSE /\ cpc' = [cpc EXCEPT ![c] = "scene_after"]
         /\ loc' = [loc EXCEPT ![c].result = result, ![c].response = resp,
                               ![c].req = NoSlot]
         /\ last' = last

(* ------------------------- obsws_send_request ------------------------- *)
\* generate_uuid, lines 344-357: six consecutive outputs of rand() printed
\* as one id; the id is named by the position in rand()'s sequence
generate_uuid == rng

\* a check that lets a request through while the handshake is under way
StateAllowsRequest_Lax(s) == s \in {"Connected", "Authenticating"}

\* line 1782: the precondition on the connection state, read unlocked
StateAllowsRequest(s) == s = "Connected"

\* lines 507-519: calloc and the initialisation of the entry
NewEntry(request_id) ==
    [alloc |-> TRUE, request_id |-> request_id, response |-> EmptyResponse,
     completed |-> FALSE, age |-> 0, mutex |-> NoThread]

\* lines 1778-1794: the parameter check, the state check, generate_uuid and
\* the allocation of the entry (calloc returns NULL when the heap is full)
SendRequestEntry(c, op, args, scene) ==
    IF args /= "ok"
    THEN /\ Return(c, op, "InvalidParam", NullResponse)
         /\ UNCHANGED <<heap, rng>>
    ELSE IF ~StateAllowsRequest(state)
    THEN /\ IF op = "send"
            THEN Return(c, op, "NotConnected", NullResponse)
            ELSE /\ cpc' = [cpc EXCEPT ![c] = "scene_after"]
                 /\ loc' = [loc EXCEPT ![c] = [NoLocals EXCEPT !.op = op,
                               !.scene = scene, !.result = "NotConnected"]]
                 /\ last' = last
         /\ UNCHANGED <<heap, rng>>
    ELSE /\ rng' = rng + 1
         /\ IF FreeSlots = {}
            THEN /\ IF op = "send"
                    THEN Return(c, op, "OutOfMemory", NullResponse)
                    ELSE /\ cpc' = [cpc EXCEPT ![c] = "scene_after"]
                         /\ loc' = [loc EXCEPT ![c] = [NoLocals EXCEPT
                               !.op = op, !.scene = scene,
                               !.result = "OutOfMemory"]]
                         /\ last' = last
                 /\ heap' = heap
            ELSE LET s == First(FreeSlots) IN
                 /\ heap' = [heap EXCEPT ![s] = NewEntry(generate_uuid)]
                 /\ loc' = [loc EXCEPT ![c] = [NoLocals EXCEPT !.op = op,
                               !.scene = scene, !.req = s,
                               !.request_id = generate_uuid]]
                 /\ cpc' = [cpc EXCEPT ![c] = "sr_reg"]
                 /\ last' = [last EXCEPT ![c] = [NoReturn EXCEPT !.op = op,
                                !.result = "pending"]]

\* a thread of the application is free to make a call: the application
\* starts no call on a handle it has passed to obsws_disconnect
CanCall(c) ==
    /\ Alive /\ cpc[c] = "idle" /\ calls[c] < MaxCalls
    /\ mpc = "idle"

CallSendRequest(c, args) ==
    /\ CanCall(c)
    /\ calls' = [calls EXCEPT ![c] = @ + 1]
    /\ SendRequestEntry(c, "send", args, "none")
    /\ UNCHANGED <<state, mtx, link, wsi, pending, iopc, io, wire, tx, stats,
                   lib, inbound, dangling, ub, teardownVars, extVars>>

\* lines 522-525: the entry is pushed at the head; nothing is checked
create_pending_request_Unlisted(list, s) == list

create_pending_request(list, s) == <<s>> \o list

SrRegister(c) ==
    /\ Alive /\ cpc[c] = "sr_reg"
    /\ Free("requests")
    /\ pending' = create_pending_request(pending, loc[c].req)
    /\ cpc' = [cpc EXCEPT ![c] = "sr_send"]
    /\ UNCHANGED <<state, mtx, link, wsi, heap, loc, last, iopc, io, wire, tx,
                   stats, rng, lib, calls, inbound, dangling, ub,
                   teardownVars, extVars>>

\* lines 1820-1838: send_mutex is taken and the frame is written when
\* conn->wsi is set; lws_write may reject it (written < 0).  A frame that
\* was written leaves send_mutex held for the statistics.
SrSend(c, written) ==
    /\ Alive /\ cpc[c] = "sr_send"
    /\ Free("send")
    /\  IF wsi /\ written = "ok"
        THEN /\ tx' = [frames |-> tx.frames + 1, bytes |-> tx.bytes + RequestLen]
             /\ wire' = wire \cup {[request_id |-> loc[c].request_id, from |-> c,
                                     op |-> loc[c].op, scene |-> loc[c].scene]}
             /\ mtx' = [mtx EXCEPT !["send"] = T(c)]
             /\ cpc' = [cpc EXCEPT ![c] = "sr_stats_lock"]
             /\ loc' = loc
        ELSE /\ loc' = [loc EXCEPT ![c].result = "SendFailed"]
             /\ cpc' = [cpc EXCEPT ![c] = "sr_rm"]
             /\ UNCHANGED <<tx, wire, mtx>>
    /\ UNCHANGED <<state, link, wsi, heap, pending, last, iopc, io, stats,
                   rng, lib, calls, inbound, dangling, ub,
                   teardownVars, extVars>>

(* The send section step by step.  SrSend above takes lines 1820-1830 as   *)
(* one step and leaves conn->send_buffer out, which is written and read    *)
(* inside the section only; SrCopy and SrWrite are the same lines with the *)
(* copy into the buffer and the write of the buffer as steps of their own. *)
\* lines 1795-1812: the request as it is serialised
RequestFrame(c) ==
    [kind |-> "request", request_id |-> loc[c].request_id, from |-> c,
     op |-> loc[c].op, scene |-> loc[c].scene]

\* a lock operation that leaves the mutex free
SendLocked_Not(t) == NoThread

\* lines 691 and 1820: pthread_mutex_lock(&conn->send_mutex) makes the
\* calling thread the owner
SendLocked(t) == t

\* lines 1820-1825: send_mutex is taken and, when conn->wsi is set, the
\* frame is copied into the buffer
SrCopy(c) ==
    /\ Alive /\ cpc[c] = "sr_send"
    /\ Free("send")
    /\  IF wsi
        THEN /\ send_buffer' = RequestFrame(c)
             /\ mtx' = [mtx EXCEPT !["send"] = SendLocked(T(c))]
             /\ cpc' = [cpc EXCEPT ![c] = "sr_write"]
             /\ loc' = loc
        ELSE /\ loc' = [loc EXCEPT ![c].result = "SendFailed"]
             /\ cpc' = [cpc EXCEPT ![c] = "sr_rm"]
             /\ UNCHANGED <<send_buffer, mtx>>
    /\ UNCHANGED <<state, link, wsi, heap, pending, last, iopc, io, wire, tx,
                   stats, rng, lib, calls, inbound, dangling, ub,
                   teardownVars, current_scene, hs, obs_scene, authcall,
                   reconnect, recv, callbacks>>

\* what the server holds once the transport has delivered the buffer
Delivered(held, frame) ==
    IF frame.kind = "request"
    THEN held \cup {[request_id |-> frame.request_id, from |-> frame.from,
                     op |-> frame.op, scene |-> frame.scene]}
    ELSE held

\* lines 1826-1839: lws_write sends what the buffer holds; a write that
\* failed releases send_mutex, one that succeeded goes on to the counters
SrWrite(c, written) ==
    /\ Alive /\ cpc[c] = "sr_write"
    /\  IF written = "ok"
        THEN /\ tx' = [frames |-> tx.frames + 1, bytes |-> tx.bytes + RequestLen]
             /\ wire' = Delivered(wire, send_buffer)
             /\ cpc' = [cpc EXCEPT ![c] = "sr_stats_lock"]
             /\ UNCHANGED <<loc, mtx>>
        ELSE /\ loc' = [loc EXCEPT ![c].result = "SendFailed"]
             /\ mtx' = [mtx EXCEPT !["send"] = NoThread]
             /\ cpc' = [cpc EXCEPT ![c] = "sr_rm"]
             /\ UNCHANGED <<tx, wire>>
    /\ UNCHANGED <<state, link, wsi, heap, pending, last, iopc, io, stats,
                   rng, lib, calls, inbound, dangling, ub,
                   teardownVars, extVars>>

\* line 1831: stats_mutex is taken with send_mutex held
SrStatsLock(c) ==
    /\ Alive /\ cpc[c] = "sr_stats_lock"
    /\ Lock("stats", T(c))
    /\ cpc' = [cpc EXCEPT ![c] = "sr_stats"]
    /\ UNCHANGED <<state, link, wsi, heap, pending, loc, last, iopc, io, wire,
                   tx, stats, rng, lib, calls, inbound, dangling, ub,
                   teardownVars, extVars>>

\* a send section that leaves with both mutexes still held
UnlockStatsAndSend_Missing(m) == m

\* lines 1834 and 1839: stats_mutex and then send_mutex are released
UnlockStatsAndSend(m) == [m EXCEPT !["stats"] = NoThread, !["send"] = NoThread]

\* lines 1832-1860: the counters, both unlocks, and the deadline
\* (timeout_ms, or config.recv_timeout_ms when it is 0)
SrStats(c, timeout_ms) ==
    /\ Alive /\ cpc[c] = "sr_stats"
    /\ loc[c].op /= "send" => timeout_ms = 0
    /\ stats' = [stats EXCEPT !.messages_sent = @ + 1,
                              !.bytes_sent = @ + RequestLen]
    /\ mtx' = UnlockStatsAndSend(mtx)
    /\ loc' = [loc EXCEPT ![c].left =
           IF timeout_ms = 0 THEN RecvTimeoutDefault ELSE timeout_ms]
    /\ cpc' = [cpc EXCEPT ![c] = "sr_wait_lock"]
    /\ UNCHANGED <<state, link, wsi, heap, pending, last, iopc, io, wire, tx,
                   rng, lib, calls, inbound, dangling, ub,
                   teardownVars, extVars>>

(* ---------------------- waiting for the response ---------------------- *)
\* lines 1871-1872: *response = req->response; req->response = NULL
TakeResponse(e) == [e EXCEPT !.response = NullResponse]

\* a caller goes on after obsws_disconnect has freed the entries and the
\* connection (a waiter when its deadline passes: nothing signals it): it
\* reads and writes freed memory
CallerUseAfterFree(c) ==
    /\ cpc[c] \notin {"idle", "undefined"}
    /\ freed
    /\ cpc[c] = "sr_waiting" => (loc[c].signalled \/ loc[c].left = 0)
    /\ ub' = ub \cup {"use_after_free"}
    /\ cpc' = [cpc EXCEPT ![c] = "undefined"]
    /\ UNCHANGED <<state, mtx, link, wsi, heap, pending, loc, last, iopc, io,
                   wire, tx, stats, rng, lib, calls, inbound, dangling,
                   teardownVars, extVars>>

\* a call that turns a refusal by the server into an error code
ResultOfCompleted_Strict(resp) == IF resp.success THEN "OK" ELSE "RequestFailed"

\* line 1878: a call whose entry was completed returns OBSWS_OK; the
\* success flag of the response is not read
ResultOfCompleted(resp) == "OK"

\* lines 1862-1863 and 1871-1873: req->mutex is taken and completed is read;
\* a completed entry gives its response up, an incomplete one is waited for
\* (pthread_cond_timedwait releases the mutex)
SrWaitLock(c) ==
    /\ Alive /\ cpc[c] = "sr_wait_lock" /\ ~Dangles(T(c))
    /\ EntryFree(loc[c].req)
    /\ LET s == loc[c].req IN
        IF heap[s].completed
        THEN /\ loc' = [loc EXCEPT ![c].response = heap[s].response,
                                   ![c].result = ResultOfCompleted(heap[s].response)]
             /\ heap' = [heap EXCEPT ![s] = TakeResponse(@)]
             /\ cpc' = [cpc EXCEPT ![c] = "sr_rm"]
        ELSE /\ loc' = [loc EXCEPT ![c].signalled = FALSE]
             /\ heap' = heap
             /\ cpc' = [cpc EXCEPT ![c] = "sr_waiting"]
    /\ UNCHANGED <<state, mtx, link, wsi, pending, last, iopc, io, wire, tx,
                   stats, rng, lib, calls, inbound, dangling, ub,
                   teardownVars, extVars>>

\* what pthread_cond_timedwait can return to a waiter
WaitResults(l) ==
    IF l.signalled THEN {"woken"}
    ELSE IF l.left = 0 THEN {"ETIMEDOUT"} ELSE {}

\* a timed-out branch that goes on to remove the entry with req->mutex held
UnlockOnTimeout_Missing(owner) == owner

\* lines 1865-1867: the timed-out branch unlocks req->mutex before it
\* removes the entry
UnlockOnTimeout(owner) == NoThread

\* lines 1863-1873: pthread_cond_timedwait returns with req->mutex taken
\* again.  ETIMEDOUT leaves through the timeout branch whatever completed
\* says; otherwise the loop reads completed again.
SrWoken(c) ==
    /\ Alive /\ cpc[c] = "sr_waiting" /\ ~Dangles(T(c))
    /\ EntryFree(loc[c].req)
    /\ \E wait_result \in WaitResults(loc[c]) :
        LET s == loc[c].req IN
        IF wait_result = "ETIMEDOUT"
        THEN /\ loc' = [loc EXCEPT ![c].result = "Timeout",
                                   ![c].wait_result = wait_result]
             /\ heap' = [heap EXCEPT ![s].mutex = UnlockOnTimeout(T(c))]
             /\ cpc' = [cpc EXCEPT ![c] = "sr_rm"]
        ELSE IF heap[s].completed
        THEN /\ loc' = [loc EXCEPT ![c].response = heap[s].response,
                                   ![c].result = ResultOfCompleted(heap[s].response),
                                   ![c].wait_result = wait_result]
             /\ heap' = [heap EXCEPT ![s] = TakeResponse(@)]
             /\ cpc' = [cpc EXCEPT ![c] = "sr_rm"]
        ELSE /\ loc' = [loc EXCEPT ![c].signalled = FALSE]
             /\ heap' = heap
             /\ cpc' = cpc
    /\ UNCHANGED <<state, mtx, link, wsi, pending, last, iopc, io, wire, tx,
                   stats, rng, lib, calls, inbound, dangling, ub,
                   teardownVars, extVars>>

\* remove_pending_request, lines 549-569: the list without the target
remove_pending_request(list, target) ==
    IF Positions(list, target) = {} THEN list
    ELSE RemoveAt(list, First(Positions(list, target)))

\* lines 1842-1845, 1866-1868, 1875-1878: the entry is removed and, when it
\* was still linked, freed (req->response is not); the call returns.  An
\* entry that the sweep unlinked is not found and stays allocated.
SrRemove(c) ==
    /\ Alive /\ cpc[c] = "sr_rm" /\ ~Dangles(T(c))
    /\ Free("requests")
    /\ LET s == loc[c].req IN
        /\ pending' = remove_pending_request(pending, s)
        /\ IF Positions(pending, s) /= {}
           THEN /\ heap' = [heap EXCEPT ![s] = FreeSlot]
                /\ dangling' = dangling \cup Danglers(s, T(c))
           ELSE UNCHANGED <<heap, dangling>>
    /\ SendRequestReturns(c, loc[c].result, loc[c].response)
    /\ UNCHANGED <<state, mtx, link, wsi, iopc, io, wire, tx, stats, rng, lib,
                   calls, inbound, ub, teardownVars, extVars>>

(* -------------------------------- time -------------------------------- *)
\* d seconds pass: every entry ages, every deadline comes nearer and
\* connected_since lies further back
Tick(d) ==
    /\ heap' = [s \in Slots |->
                  IF heap[s].alloc
                  THEN [heap[s] EXCEPT !.age = Later(@, d)] ELSE heap[s]]
    /\ loc' = [c \in Callers |->
                  IF cpc[c] \in {"sr_wait_lock", "sr_waiting"}
                  THEN [loc[c] EXCEPT !.left = Left(@, d)] ELSE loc[c]]
    /\ lib' = [lib EXCEPT !.same_second = FALSE]
    /\ stats' = [stats EXCEPT !.connected_since = Later(@, d)]
    /\ <<heap', loc', lib', stats'>> /= <<heap, loc, lib, stats>>
    /\ UNCHANGED <<state, mtx, link, wsi, pending, cpc, last, iopc, io, wire,
                   tx, rng, calls, inbound, dangling, ub,
                   teardownVars, extVars>>

(* ------------------------------ the server ---------------------------- *)
\* the response of the server to a request it holds: the status, and for
\* GetCurrentProgramScene that succeeds the program scene as responseData
Answer(w, r) ==
    [Msg("RequestResponse") EXCEPT !.has_id = TRUE, !.request_id = w.request_id,
         !.has_status = TRUE, !.result = r, !.to = w.from,
         !.scene = IF w.op = "get_scene" /\ r THEN obs_scene ELSE "none"]

Answers == {Answer(w, r) : w \in wire, r \in BOOLEAN}

\* the program scene of OBS once it has sent m: a scene-changed event
\* reports the switch that caused it, and SetCurrentProgramScene that is
\* answered with success has switched to the scene it named
ObsSceneAfter(m) ==
    IF m.op = "Event" /\ m.scene /= "none" THEN m.scene
    ELSE IF m.op = "RequestResponse" /\ m.has_id /\ m.result
    THEN LET sets == {w \in wire : /\ w.request_id = m.request_id
                                   /\ w.from = m.to /\ w.op = "set_scene"}
         IN IF sets = {} THEN obs_scene ELSE (CHOOSE w \in sets : TRUE).scene
    ELSE obs_scene

\* frames of the handshake, events, and frames no handler accepts
Unsolicited ==
    {[Msg("Hello") EXCEPT !.auth = a] : a \in {"none", "challenge"}}
        \cup {Msg("Identified"), Msg("unparsable"), Msg("RequestResponse")}
        \cup {[Msg("Event") EXCEPT !.etype = "CurrentProgramSceneChanged",
                                   !.scene = sc] : sc \in Scenes}

ServerFrames == Answers \cup Unsolicited

\* a response that carries an id no call of this connection was given
\* (generate_uuid names its ids from 0 upwards)
Stray ==
    [Msg("RequestResponse") EXCEPT !.has_id = TRUE, !.request_id = -1,
                                   !.has_status = TRUE, !.result = TRUE]

(* --------------------------- the event thread ------------------------- *)
\* set_connection_state, lines 477-492: the state is overwritten under
\* state_mutex, whatever the old state was
set_connection_state(old_state, new_state) == new_state

\* a set_connection_state that calls state_callback every time
StateNotified_Always(cb, old_state, new_state) ==
    [cb EXCEPT !.state_callback = <<old_state, new_state>>,
               !.held = Held(IoThread)]

\* set_connection_state, lines 484-487: after state_mutex is released,
\* state_callback is called with the old and the new state when they differ
StateNotified(cb, old_state, new_state) ==
    IF old_state /= new_state
    THEN [cb EXCEPT !.state_callback = <<old_state, new_state>>,
                    !.held = Held(IoThread)]
    ELSE cb

\* a handler that reports scene changes only
EventNotified_ScenesOnly(cb, m) ==
    IF m.etype = "CurrentProgramSceneChanged"
    THEN [cb EXCEPT !.event_callback = m.etype, !.held = Held(IoThread)]
    ELSE cb

\* handle_event_message, lines 795-803: event_callback is called with the
\* eventType of an event that has one
EventNotified(cb, m) ==
    IF m.etype /= "none"
    THEN [cb EXCEPT !.event_callback = m.etype, !.held = Held(IoThread)]
    ELSE cb

\* obsws_debug, lines 302-321: a message of level HIGH reaches log_callback
\* when g_debug_level is HIGH; held are the locks of the calling thread
DebugLogged(cb, held) ==
    IF cb.debug_level = "HIGH" THEN [cb EXCEPT !.held = held] ELSE cb

\* obsws_set_debug_level, lines 1313-1315: g_debug_level is overwritten, at
\* any time and from any thread
obsws_set_debug_level(level) ==
    /\ callbacks.debug_level /= level
    /\ callbacks' = [callbacks EXCEPT !.debug_level = level]
    /\ UNCHANGED <<state, mtx, link, wsi, heap, pending, cpc, loc, last, io,
                   iopc, wire, tx, stats, rng, lib, calls, inbound, dangling,
                   ub, teardownVars, connVars>>

\* event_thread_func, lines 1135-1142: should_exit is read under state_mutex
IoTop ==
    /\ Alive /\ iopc = "io_top"
    /\ Free("state")
    /\ iopc' = IF should_exit THEN "io_exited" ELSE "io_service"
    /\ UNCHANGED <<state, mtx, link, wsi, heap, pending, cpc, loc, last, io,
                   wire, tx, stats, rng, lib, calls, inbound, dangling, ub,
                   teardownVars, extVars>>

\* lws_service returns without a callback
IoServiceIdle ==
    /\ Alive /\ iopc = "io_service"
    /\ iopc' = "io_sweep_lock"
    /\ UNCHANGED <<state, mtx, link, wsi, heap, pending, cpc, loc, last, io,
                   wire, tx, stats, rng, lib, calls, inbound, dangling, ub,
                   teardownVars, extVars>>

\* the transport events the socket can raise in each of its conditions
TransportEvents ==
    CASE link = "connecting" -> {"ESTABLISHED", "CONNECTION_ERROR"}
      [] link = "open"       -> {"CLOSED"}
      [] link \in {"closed", "failed"} -> IF wsi THEN {"WSI_DESTROY"} ELSE {}
      [] OTHER -> {}

\* lws_callback, lines 1027-1030 and 1051-1067
IoTransportEvent(ev) ==
    /\ Alive /\ iopc = "io_service"
    /\ ev \in TransportEvents
    /\ ev /= "WSI_DESTROY" => Free("state")
    /\ state' = CASE ev = "ESTABLISHED" -> set_connection_state(state, "Connecting")
                  [] ev = "CONNECTION_ERROR" -> set_connection_state(state, "Error")
                  [] ev = "CLOSED" -> set_connection_state(state, "Disconnected")
                  [] OTHER -> state
    /\ callbacks' = IF ev = "WSI_DESTROY" THEN callbacks
                    ELSE StateNotified(callbacks, state, state')
    /\ link' = CASE ev = "ESTABLISHED" -> "open"
                 [] ev = "CONNECTION_ERROR" -> "failed"
                 [] ev = "CLOSED" -> "closed"
                 [] OTHER -> link
    /\ wsi' = IF ev = "WSI_DESTROY" THEN FALSE ELSE wsi
    /\ iopc' = "io_sweep_lock"
    /\ UNCHANGED <<mtx, heap, pending, cpc, loc, last, io, wire, tx, stats,
                   rng, lib, calls, inbound, dangling, ub,
                   teardownVars, connVars>>

\* a lookup that takes the head of the list for the entry
find_pending_request_Head(list, request_id) ==
    IF list = <<>> THEN NoSlot ELSE list[1]

\* find_pending_request, lines 531-546: the first entry, from the head,
\* whose id matches; NoSlot when there is none
find_pending_request(list, request_id) ==
    LET hits == {i \in 1..Len(list) : heap[list[i]].request_id = request_id}
    IN IF hits = {} THEN NoSlot ELSE list[First(hits)]

\* an Identify that carries an authentication string whenever the server
\* asks for one
IdentifyAuthentication_Always(auth_required, password) == auth_required

\* line 669: the authentication string is added to Identify when the
\* server requires authentication and a password is configured
IdentifyAuthentication(auth_required, password) == auth_required /\ password

\* lines 644-652: challenge and salt are copied from the authentication
\* object of the Hello when it has both; otherwise the fields are left as
\* they were. A field is named by where its string came from: "NULL" for
\* none (calloc), "set" for the Hello being handled, "earlier" for a Hello
\* handled before it
HelloCopied(m, field) ==
    IF m.auth = "challenge" THEN "set"
    ELSE IF field = "NULL" THEN "NULL" ELSE "earlier"

\* handle_hello_message, lines 640-677
HelloFields(m) ==
    [auth_required |-> m.auth /= "none",
     challenge |-> HelloCopied(m, hs.challenge),
     salt |-> HelloCopied(m, hs.salt),
     password |-> hs.password,
     authentication |-> IdentifyAuthentication(m.auth /= "none", hs.password)]

\* lines 672 and 443-453: generate_auth_response takes strlen of salt and
\* of challenge, which are null pointers when no Hello has set them
HelloFaults(m) ==
    IF /\ m.op = "Hello" /\ HelloFields(m).authentication
       /\ "NULL" \in {HelloFields(m).challenge, HelloFields(m).salt}
    THEN {"crash"} ELSE {}

\* an event handler that leaves the cache as it was
SceneReported_Ignored(cache, m) == cache

\* handle_event_message, lines 806-813: CurrentProgramSceneChanged with a
\* sceneName replaces the cache
SceneReported(cache, m) ==
    IF m.etype = "CurrentProgramSceneChanged" /\ m.scene /= "none"
    THEN m.scene ELSE cache

\* handle_websocket_message, lines 936-946 and 972-980, with the returns of
\* handle_request_response_message (lines 861 and 867-870): -1 for a frame
\* that does not parse or has no opcode, for a response without an id and
\* for a response to an unknown request
handle_websocket_message(m) ==
    IF \/ m.op = "unparsable"
       \/ m.op = "RequestResponse" /\ ~m.has_id
       \/ /\ m.op = "RequestResponse" /\ m.has_id
          /\ find_pending_request(pending, m.request_id) = NoSlot
    THEN -1 ELSE 0

\* a callback that hands the result of the handler to libwebsockets
lws_callback_Propagates(handled) == handled

\* lws_callback, lines 1038 and 1069: the result of
\* handle_websocket_message is dropped and the callback returns 0
lws_callback(handled) == 0

\* libwebsockets closes a connection whose callback returned non-zero
LinkAfterCallback(l, returned) == IF returned /= 0 THEN "closed" ELSE l

\* the dispatch of handle_websocket_message (lines 932-972), up to the end
\* of the first critical section of the handler
IoDispatch(m) ==
    /\ Alive /\ iopc = "io_service"
    /\ link = "open"
    /\ wire' = IF m.op = "RequestResponse" /\ m.has_id
               THEN {w \in wire : w.request_id /= m.request_id \/ w.from /= m.to}
               ELSE wire
    /\ obs_scene' = ObsSceneAfter(m)
    /\ link' = LinkAfterCallback(link, lws_callback(handle_websocket_message(m)))
    /\ CASE m.op = "unparsable" ->
              /\ iopc' = "io_sweep_lock"
              /\ UNCHANGED <<state, io, hs, current_scene, callbacks>>
         [] m.op = "Hello" ->
              /\ Free("state")
              /\ hs' = HelloFields(m)
              /\ state' = set_connection_state(state, "Authenticating")
              /\ callbacks' = StateNotified(callbacks, state, "Authenticating")
              /\ iopc' = "io_hello_send"
              /\ UNCHANGED <<io, current_scene>>
         [] m.op = "Identified" ->
              /\ Free("state")
              /\ state' = set_connection_state(state, "Connected")
              /\ callbacks' = StateNotified(callbacks, state, "Connected")
              /\ iopc' = "io_ident_stats"
              /\ UNCHANGED <<io, hs, current_scene>>
         [] m.op = "Event" ->
              /\ Free("scene")
              /\ callbacks' = EventNotified(callbacks, m)
              /\ current_scene' = SceneReported(current_scene, m)
              /\ iopc' = "io_rx_stats"
              /\ UNCHANGED <<state, io, hs>>
         [] m.op = "RequestResponse" /\ ~m.has_id ->
              /\ iopc' = "io_rx_stats"
              /\ UNCHANGED <<state, io, hs, current_scene, callbacks>>
         [] m.op = "RequestResponse" /\ m.has_id ->
              /\ Free("requests")
              /\ LET req == find_pending_request(pending, m.request_id) IN
                  /\ io' = IF req = NoSlot THEN IoIdle
                           ELSE [IoIdle EXCEPT !.req = req, !.msg = m]
                  /\ iopc' = IF req = NoSlot THEN "io_rx_stats" ELSE "io_fill"
              /\ UNCHANGED <<state, hs, current_scene, callbacks>>
    /\ ub' = ub \cup HelloFaults(m)
    /\ UNCHANGED <<mtx, wsi, heap, pending, cpc, loc, last, tx, stats,
                   rng, lib, calls, dangling, teardownVars, send_buffer,
                   authcall, reconnect>>

\* LWS_CALLBACK_CLIENT_RECEIVE with a message that comes in one fragment
\* and fits the buffer (lines 1032-1040)
IoReceive(m) ==
    /\ m \notin Answers => inbound < MaxInbound
    /\ inbound' = IF m \notin Answers THEN inbound + 1 ELSE inbound
    /\ IoDispatch(m)
    /\ UNCHANGED recv

\* bytes from..to of message k
Bytes(k, from, to) == [i \in 1..(to - from + 1) |-> <<k, from + i - 1>>]

\* a test that lets a fragment fill the buffer to its last byte
FragmentFits_Full(used, len) == used + len <= RecvBufferSize

\* line 1033: the fragment fits when it leaves one byte of the buffer free
FragmentFits(used, len) == used + len < RecvBufferSize

\* cJSON_ParseWithLength, line 936: a message that is handed over from its
\* first byte to its last parses to its content m, one whose head is
\* missing does not parse to a message
cJSON_ParseWithLength(message, m) ==
    IF message /= <<>> /\ message[1][2] = 1 THEN m ELSE Msg("unparsable")

\* LWS_CALLBACK_CLIENT_RECEIVE, lines 1032-1045: the server sends the next
\* len bytes of its message, whose content is m, as a fragment that is or
\* is not the last one.  A fragment that fits is appended, and with the
\* last fragment the buffer is handed to handle_websocket_message and
\* emptied; a fragment that does not fit empties the buffer.
LwsReceive(len, final, m) ==
    /\ Alive /\ iopc = "io_service"
    /\ link = "open"
    /\ recv.msg <= MaxMessages
    /\ recv.sent + len <= MaxMessageLen
    /\ LET fragment == Bytes(recv.msg, recv.sent + 1, recv.sent + len)
           server == [recv EXCEPT !.msg = IF final THEN @ + 1 ELSE @,
                                  !.sent = IF final THEN 0 ELSE @ + len]
       IN IF FragmentFits(Len(recv.recv_buffer), len) /\ final
          THEN /\ recv' = [server EXCEPT
                              !.recv_buffer = <<>>,
                              !.message = recv.recv_buffer \o fragment]
               /\ IoDispatch(cJSON_ParseWithLength(recv.recv_buffer \o fragment,
                                                   m))
               /\ UNCHANGED inbound
          ELSE /\ recv' = [server EXCEPT
                              !.recv_buffer =
                                  IF FragmentFits(Len(recv.recv_buffer), len)
                                  THEN @ \o fragment ELSE <<>>,
                              !.message = <<>>]
               /\ UNCHANGED <<state, mtx, link, wsi, heap, pending, cpc, loc,
                              last, iopc, io, wire, tx, stats, rng, lib, calls,
                              inbound, dangling, ub, teardownVars,
                              current_scene, hs, obs_scene, send_buffer,
                              authcall, reconnect, callbacks>>

\* handle_hello_message, lines 691-701: Identify is written under send_mutex;
\* the result of lws_write is logged with obsws_debug before the mutex is
\* released, and the statistics are not touched
IoHelloSend ==
    /\ Alive /\ iopc = "io_hello_send"
    /\ Free("send")
    /\ tx' = [frames |-> tx.frames + 1, bytes |-> tx.bytes + IdentifyLen]
    /\ callbacks' = DebugLogged(callbacks, {"send"})
    /\ iopc' = "io_rx_stats"
    /\ UNCHANGED <<state, mtx, link, wsi, heap, pending, cpc, loc, last, io,
                   wire, stats, rng, lib, calls, inbound, dangling, ub,
                   teardownVars, connVars>>

\* lines 691-694, as a step of its own: send_mutex is taken and Identify is
\* copied into the buffer
IoHelloCopy ==
    /\ Alive /\ iopc = "io_hello_send"
    /\ Free("send")
    /\ send_buffer' = IdentifyFrame
    /\ mtx' = [mtx EXCEPT !["send"] = SendLocked(IoThread)]
    /\ iopc' = "io_hello_write"
    /\ UNCHANGED <<state, link, wsi, heap, pending, cpc, loc, last, io, wire,
                   tx, stats, rng, lib, calls, inbound, dangling, ub,
                   teardownVars, current_scene, hs, obs_scene, authcall,
                   reconnect, recv, callbacks>>

\* lines 695-701: lws_write sends what the buffer holds and send_mutex is
\* released
IoHelloWrite ==
    /\ Alive /\ iopc = "io_hello_write"
    /\ tx' = [frames |-> tx.frames + 1, bytes |-> tx.bytes + IdentifyLen]
    /\ wire' = Delivered(wire, send_buffer)
    /\ callbacks' = DebugLogged(callbacks, Held(IoThread))
    /\ mtx' = [mtx EXCEPT !["send"] = NoThread]
    /\ iopc' = "io_rx_stats"
    /\ UNCHANGED <<state, link, wsi, heap, pending, cpc, loc, last, io,
                   stats, rng, lib, calls, inbound, dangling, ub,
                   teardownVars, connVars>>

\* a handler that leaves the statistics as they were
IoIdentStats_NoStamp ==
    /\ Alive /\ iopc = "io_ident_stats"
    /\ Free("stats")
    /\ reconnect' = [reconnect EXCEPT
           !.reconnect_attempts = 0,
           !.current_reconnect_delay = reconnect.reconnect_delay_ms]
    /\ iopc' = "io_rx_stats"
    /\ UNCHANGED <<state, mtx, link, wsi, heap, pending, cpc, loc, last, io,
                   wire, tx, stats, rng, lib, calls, inbound, dangling, ub,
                   teardownVars, current_scene, hs, obs_scene, send_buffer,
                   authcall, recv, callbacks>>

\* handle_identified_message, lines 741-747: connected_since (kept as the
\* seconds that have passed since) and reconnect_count are written under
\* stats_mutex; then the attempt counter and the delay are reset
IoIdentStats ==
    /\ Alive /\ iopc = "io_ident_stats"
    /\ Free("stats")
    /\ stats' = [stats EXCEPT
           !.connected_since = 0,
           !.reconnect_count = reconnect.reconnect_attempts]
    /\ reconnect' = [reconnect EXCEPT
           !.reconnect_attempts = 0,
           !.current_reconnect_delay = reconnect.reconnect_delay_ms]
    /\ iopc' = "io_rx_stats"
    /\ UNCHANGED <<state, mtx, link, wsi, heap, pending, cpc, loc, last, io,
                   wire, tx, rng, lib, calls, inbound, dangling, ub,
                   teardownVars, current_scene, hs, obs_scene, send_buffer,
                   authcall, recv, callbacks>>

\* handle_request_response_message, lines 874-892: the response is filled
\* from the message
FillResponse(resp, m) ==
    [resp EXCEPT !.success = IF m.has_status THEN m.result ELSE @,
                 !.status_code = IF m.has_status THEN 100 ELSE @,
                 !.response_data = [to |-> m.to, scene |-> m.scene]]

\* lines 872-895: req->mutex is taken through the pointer that
\* find_pending_request returned after it had released requests_mutex.
\* When the entry was freed in between, the handler writes to freed
\* memory: to the entry of the call that was given the slot since, or to
\* memory no one owns, where the write is lost or the process faults.
\* A response that the caller has taken already is NULL here.
IoFill ==
    /\ Alive /\ iopc = "io_fill"
    /\ LET s == io.req IN
        IF Dangles(IoThread) /\ ~heap[s].alloc
        THEN /\ \E outcome \in {"use_after_free", "crash"} :
                    ub' = ub \cup {"use_after_free", outcome}
             /\ UNCHANGED <<heap, loc>>
        ELSE IF EntryFree(s) /\ heap[s].response.null
        THEN /\ ub' = ub \cup {"crash"}
             /\ UNCHANGED <<heap, loc>>
        ELSE /\ EntryFree(s)
             /\ heap' = [heap EXCEPT ![s].response = FillResponse(@, io.msg),
                                     ![s].completed = TRUE]
             /\ loc' = Broadcast(s)
             /\ ub' = IF Dangles(IoThread)
                      THEN ub \cup {"use_after_free"} ELSE ub
    /\ io' = IoIdle
    /\ dangling' = dangling \ {IoThread}
    /\ iopc' = "io_rx_stats"
    /\ UNCHANGED <<state, mtx, link, wsi, pending, cpc, last, wire, tx, stats,
                   rng, lib, calls, inbound, teardownVars, extVars>>

\* handle_websocket_message, lines 975-980: the message is counted and
\* the handler returns
IoRxStats ==
    /\ Alive /\ iopc = "io_rx_stats"
    /\ Free("stats")
    /\ stats' = [stats EXCEPT !.messages_received = @ + 1,
                              !.bytes_received = @ + InboundLen]
    /\ callbacks' = [callbacks EXCEPT !.event_callback = "none"]
    /\ iopc' = "io_sweep_lock"
    /\ UNCHANGED <<state, mtx, link, wsi, heap, pending, cpc, loc, last, io,
                   wire, tx, rng, lib, calls, inbound, dangling, ub,
                   teardownVars, connVars>>

\* line 579: now - timestamp > 30
IsStale(e) == e.age > SweepAge

\* cleanup_old_requests, lines 573-574: the clock is read once, before the
\* list is walked, and requests_mutex is taken
IoSweepLock ==
    /\ Alive /\ iopc = "io_sweep_lock"
    /\ Lock("requests", IoThread)
    /\ io' = [io EXCEPT !.stale =
                 {pending[i] : i \in {j \in 1..Len(pending) :
                                         IsStale(heap[pending[j]])}}]
    /\ iopc' = "io_sweep"
    /\ UNCHANGED <<state, link, wsi, heap, pending, cpc, loc, last, wire,
                   tx, stats, rng, lib, calls, inbound, dangling, ub,
                   teardownVars, extVars>>

\* the entries of the list that the walk has still to retire
StalePositions == {i \in 1..Len(pending) : pending[i] \in io.stale}

\* lines 586-590: what the sweep writes into the entry
TimeoutResponse(resp) ==
    [resp EXCEPT !.success = FALSE, !.error_message = "Request timeout"]

\* lines 577-595: with requests_mutex held, the next stale entry is
\* unlinked, its mutex taken, and it is completed with the timeout error
\* and broadcast (it is not freed); with none left requests_mutex is
\* released
IoSweep ==
    /\ Alive /\ iopc = "io_sweep"
    /\ IF StalePositions = {}
       THEN /\ Unlock("requests", IoThread)
            /\ iopc' = "io_top"
            /\ io' = [io EXCEPT !.stale = {}]
            /\ UNCHANGED <<heap, pending, loc, ub>>
       ELSE LET i == First(StalePositions)
                old == pending[i]
            IN /\ EntryFree(old)
               /\ pending' = RemoveAt(pending, i)
               /\ IF heap[old].response.null
                  THEN /\ ub' = ub \cup {"crash"}
                       /\ UNCHANGED <<heap, loc>>
                  ELSE /\ heap' = [heap EXCEPT
                              ![old].response = TimeoutResponse(@),
                              ![old].completed = TRUE]
                       /\ loc' = Broadcast(old)
                       /\ ub' = ub
               /\ UNCHANGED <<mtx, iopc, io>>
    /\ UNCHANGED <<state, link, wsi, cpc, last, wire, tx, stats, rng, lib,
                   calls, inbound, dangling, teardownVars, extVars>>

(* ------------------------- the Identify token ------------------------- *)
(* sha256_hash (lines 411-417) is EVP_sha256 of OpenSSL over the bytes of  *)
(* a C string, base64_encode (lines 369-391) the base64 BIO of OpenSSL     *)
(* without line breaks.  Strings are sequences of bytes.  A 32-bit word is *)
(* a pair of 16-bit halves, the high one first.                            *)
RECURSIVE Pow2(_)
Pow2(n) == IF n = 0 THEN 1 ELSE 2 * Pow2(n - 1)

RECURSIVE Xor(_, _)
Xor(a, b) ==
    IF a = 0 THEN b ELSE IF b = 0 THEN a
    ELSE 2 * Xor(a \div 2, b \div 2) + ((a + b) % 2)

RECURSIVE And(_, _)
And(a, b) ==
    IF a = 0 \/ b = 0 THEN 0
    ELSE 2 * And(a \div 2, b \div 2) + ((a % 2) * (b % 2))

WXor(x, y) == <<Xor(x[1], y[1]), Xor(x[2], y[2])>>
WAnd(x, y) == <<And(x[1], y[1]), And(x[2], y[2])>>
WNot(x) == <<65535 - x[1], 65535 - x[2]>>
\* addition modulo 2^32
WAdd(x, y) ==
    LET lo == x[2] + y[2]
        hi == x[1] + y[1] + (lo \div 65536)
    IN <<hi % 65536, lo % 65536>>

Rotr(x, k) ==
    LET y == IF k >= 16 THEN <<x[2], x[1]>> ELSE x
        j == k % 16
        p == Pow2(j)
        q == Pow2(16 - j)
    IN IF j = 0 THEN y
       ELSE <<(y[1] \div p) + (y[2] % p) * q, (y[2] \div p) + (y[1] % p) * q>>

Shr(x, k) ==
    LET p == Pow2(k)
        q == Pow2(16 - k)
    IN <<x[1] \div p, (x[2] \div p) + (x[1] % p) * q>>


\* the round constants and the initial hash value of SHA-256
SHA256_K ==
    <<
       <<17034, 12184>>, <<28983, 17553>>, <<46528, 64463>>, <<59829, 56229>>,
       <<14678, 49755>>, <<23025, 4593>>, <<37439, 33444>>, <<43804, 24277>>,
       <<55303, 43672>>, <<4739, 23297>>, <<9265, 34238>>, <<21772, 32195>>,
       <<29374, 23924>>, <<32990, 45566>>, <<39900, 1703>>, <<49563, 61812>>,
       <<58523, 27073>>, <<61374, 18310>>, <<4033, 40390>>, <<9228, 41420>>,
       <<11753, 11375>>, <<19060, 33962>>, <<23728, 43484>>, <<30457, 35034>>,
       <<38974, 20818>>, <<43057, 50797>>, <<45059, 10184>>, <<48985, 32711>>,
       <<50912, 3059>>, <<54695, 37191>>, <<1738, 25425>>, <<5161, 10599>>,
       <<10167, 2693>>, <<11803, 8504>>, <<19756, 28156>>, <<21304, 3347>>,
       <<25866, 29524>>, <<30314, 2747>>, <<33218, 51502>>, <<37490, 11397>>,
       <<41663, 59553>>, <<43034, 26187>>, <<49739, 35696>>, <<51052, 20899>>,
       <<53650, 59417>>, <<54937, 1572>>, <<62478, 13701>>, <<4202, 41072>>,
       <<6564, 49430>>, <<7735, 27656>>, <<10056, 30540>>, <<13488, 48309>>,
       <<14620, 3251>>, <<20184, 43594>>, <<23452, 51791>>, <<26670, 28659>>,
       <<29839, 33518>>, <<30885, 25455>>, <<33992, 30740>>, <<36039, 520>>,
       <<37054, 65530>>, <<42064, 27883>>, <<48889, 41975>>, <<50801, 30962>>
    >>
SHA256_H0 ==
    <<
       <<27145, 58983>>, <<47975, 44677>>, <<15470, 62322>>, <<42319, 62778>>,
       <<20750, 21119>>, <<39685, 26764>>, <<8067, 55723>>, <<23520, 52505>>
    >>

Ch(x, y, z) == WXor(WAnd(x, y), WAnd(WNot(x), z))
Maj(x, y, z) == WXor(WXor(WAnd(x, y), WAnd(x, z)), WAnd(y, z))
BigSigma0(x) == WXor(WXor(Rotr(x, 2), Rotr(x, 13)), Rotr(x, 22))
BigSigma1(x) == WXor(WXor(Rotr(x, 6), Rotr(x, 11)), Rotr(x, 25))
SmallSigma0(x) == WXor(WXor(Rotr(x, 7), Rotr(x, 18)), Shr(x, 3))
SmallSigma1(x) == WXor(WXor(Rotr(x, 17), Rotr(x, 19)), Shr(x, 10))

\* the message followed by the bit 1, zero bytes up to 56 modulo 64, and
\* the length of the message in bits as eight bytes
Padded(m) ==
    LET zeros == (119 - Len(m)) % 64
        bits == 8 * Len(m)
    IN m \o <<128>> \o [i \in 1..zeros |-> 0]
         \o <<0, 0, 0, 0, 0, 0, bits \div 256, bits % 256>>

\* the sixteen words of block n (from 0)
BlockWords(p, n) ==
    [i \in 1..16 |->
        LET o == 64 * n + 4 * (i - 1)
        IN <<256 * p[o + 1] + p[o + 2], 256 * p[o + 3] + p[o + 4]>>]

RECURSIVE Schedule(_)
Schedule(w) ==
    IF Len(w) = 64 THEN w
    ELSE LET t == Len(w) + 1
         IN Schedule(Append(w,
                WAdd(WAdd(SmallSigma1(w[t - 2]), w[t - 7]),
                     WAdd(SmallSigma0(w[t - 15]), w[t - 16]))))

\* one round: the working variables a..h after round t
Round(s, w, t) ==
    LET t1 == WAdd(WAdd(WAdd(s[8], BigSigma1(s[5])),
                        WAdd(Ch(s[5], s[6], s[7]), SHA256_K[t])), w[t])
        t2 == WAdd(BigSigma0(s[1]), Maj(s[1], s[2], s[3]))
    IN <<WAdd(t1, t2), s[1], s[2], s[3], WAdd(s[4], t1), s[5], s[6], s[7]>>

\* the working variables before the first round and after each round
RECURSIVE Rounds(_, _)
Rounds(v, w) ==
    IF Len(v) = 65 THEN v
    ELSE Rounds(Append(v, Round(v[Len(v)], w, Len(v))), w)

Compress(h, words) ==
    LET s == Rounds(<<h>>, Schedule(words))[65]
    IN [i \in 1..8 |-> WAdd(h[i], s[i])]

RECURSIVE Blocks(_, _, _)
Blocks(h, p, n) ==
    IF 64 * n >= Len(p) THEN h
    ELSE Blocks(Compress(h, BlockWords(p, n)), p, n + 1)

\* the digest of a string: thirty-two bytes
Sha256(m) ==
    LET h == Blocks(SHA256_H0, Padded(m), 0)
    IN [i \in 1..32 |->
          LET word == h[(i - 1) \div 4 + 1]
              half == word[((i - 1) % 4) \div 2 + 1]
          IN IF i % 2 = 1 THEN half \div 256 ELSE half % 256]

\* the character of a six-bit value in the base64 alphabet
Base64Char(v) ==
    IF v < 26 THEN 65 + v
    ELSE IF v < 52 THEN 97 + (v - 26)
    ELSE IF v < 62 THEN 48 + (v - 52)
    ELSE IF v = 62 THEN 43 ELSE 47

\* base64 with padding and without line breaks
Base64(b) ==
    [i \in 1..(4 * ((Len(b) + 2) \div 3)) |->
        LET g == 3 * ((i - 1) \div 4)
            k == (i - 1) % 4
            b1 == b[g + 1]
            b2 == IF g + 2 <= Len(b) THEN b[g + 2] ELSE 0
            b3 == IF g + 3 <= Len(b) THEN b[g + 3] ELSE 0
        IN IF k = 2 /\ g + 2 > Len(b) THEN 61
           ELSE IF k = 3 /\ g + 3 > Len(b) THEN 61
           ELSE Base64Char(CASE k = 0 -> b1 \div 4
                             [] k = 1 -> (b1 % 4) * 16 + b2 \div 16
                             [] k = 2 -> (b2 % 16) * 4 + b3 \div 64
                             [] k = 3 -> b3 % 64)]

\* the strings of the test vector: "testpass", "salt123", "chal456"
TestPassword == <<116, 101, 115, 116, 112, 97, 115, 115>>
TestSalt == <<115, 97, 108, 116, 49, 50, 51>>
TestChallenge == <<99, 104, 97, 108, 52, 53, 54>>

\* a string of n bytes b
Repeat(b, n) == [i \in 1..n |-> b]

\* passwords, salts and challenges: those of the test vector, empty
\* strings, and strings long enough for a hash input of two blocks
Passwords == {TestPassword, <<>>, Repeat(112, LongLen)}
Salts == {TestSalt, <<>>, Repeat(115, LongLen)}
Challenges == {TestChallenge, <<>>, Repeat(99, LongLen)}

\* a concatenation with the salt in front
PasswordSalt_SaltFirst(password, salt) == salt \o password

\* lines 442-443: sprintf(password_salt, "%s%s", password, salt)
PasswordSalt(password, salt) == password \o salt

\* lines 450-451: sprintf(secret_challenge, "%s%s", secret, challenge)
SecretChallenge(secret, challenge) == secret \o challenge

\* handle_hello_message, line 672: generate_auth_response is called with
\* the configured password and the salt and the challenge of the Hello
CallGenerateAuthResponse(password, salt, challenge) ==
    /\ Alive /\ iopc = "io_hello_send" /\ hs.authentication
    /\ authcall.pc = "none"
    /\ authcall' = [NoAuthCall EXCEPT !.pc = "secret", !.password = password,
                                      !.salt = salt, !.challenge = challenge]
    /\ UNCHANGED <<state, mtx, link, wsi, heap, pending, cpc, loc, last, iopc,
                   io, wire, tx, stats, rng, lib, calls, inbound, dangling, ub,
                   teardownVars, current_scene, hs, obs_scene, send_buffer,
                   reconnect, recv, callbacks>>

\* generate_auth_response, lines 442-447: the secret
GenerateAuthSecret ==
    /\ Alive /\ authcall.pc = "secret"
    /\ authcall' = [authcall EXCEPT
           !.secret = Base64(Sha256(PasswordSalt(authcall.password,
                                                 authcall.salt))),
           !.pc = "response"]
    /\ UNCHANGED <<state, mtx, link, wsi, heap, pending, cpc, loc, last, iopc,
                   io, wire, tx, stats, rng, lib, calls, inbound, dangling, ub,
                   teardownVars, current_scene, hs, obs_scene, send_buffer,
                   reconnect, recv, callbacks>>

\* lines 450-458: the response, which is returned
GenerateAuthResponse ==
    /\ Alive /\ authcall.pc = "response"
    /\ authcall' = [authcall EXCEPT
           !.auth_response = Base64(Sha256(SecretChallenge(authcall.secret,
                                                           authcall.challenge))),
           !.pc = "returned"]
    /\ UNCHANGED <<state, mtx, link, wsi, heap, pending, cpc, loc, last, iopc,
                   io, wire, tx, stats, rng, lib, calls, inbound, dangling, ub,
                   teardownVars, current_scene, hs, obs_scene, send_buffer,
                   reconnect, recv, callbacks>>

\* handle_hello_message, line 674: the string is added to the data of
\* Identify as "authentication"
IdentifyAddAuthentication ==
    /\ Alive /\ authcall.pc = "returned"
    /\ authcall' = [authcall EXCEPT !.authentication = authcall.auth_response,
                                    !.pc = "added"]
    /\ UNCHANGED <<state, mtx, link, wsi, heap, pending, cpc, loc, last, iopc,
                   io, wire, tx, stats, rng, lib, calls, inbound, dangling, ub,
                   teardownVars, current_scene, hs, obs_scene, send_buffer,
                   reconnect, recv, callbacks>>

(* ------------------------- the library's seed ------------------------- *)
\* obsws_cleanup, lines 1237-1249
ObswsCleanup ==
    /\ Alive /\ lib.initialized
    /\ lib' = [lib EXCEPT !.initialized = FALSE]
    /\ UNCHANGED <<state, mtx, link, wsi, heap, pending, cpc, loc, last, iopc,
                   io, wire, tx, stats, rng, calls, inbound, dangling, ub,
                   teardownVars, extVars>>

\* obsws_init, lines 1196-1214: srand(time(NULL)); within the second of the
\* first seeding the seed is the same and rand() starts its sequence again
ObswsInit ==
    /\ Alive /\ ~lib.initialized
    /\ lib' = [lib EXCEPT !.initialized = TRUE]
    /\ rng' = IF lib.same_second THEN 0 ELSE rng
    /\ UNCHANGED <<state, mtx, link, wsi, heap, pending, cpc, loc, last, iopc,
                   io, wire, tx, stats, calls, inbound, dangling, ub,
                   teardownVars, extVars>>

(* ------------------------------- getters ------------------------------ *)
\* obsws_get_state, lines 1663-1671: the state is copied under state_mutex
CallGetState(c) ==
    /\ CanCall(c)
    /\ Free("state")
    /\ calls' = [calls EXCEPT ![c] = @ + 1]
    /\ Return(c, "get_state", state, NullResponse)
    /\ UNCHANGED <<state, mtx, link, wsi, heap, pending, iopc, io, wire, tx,
                   stats, rng, lib, inbound, dangling, ub,
                   teardownVars, extVars>>

\* obsws_get_stats, lines 1706-1714: the counters are copied under stats_mutex
CallGetStats(c) ==
    /\ CanCall(c)
    /\ Free("stats")
    /\ calls' = [calls EXCEPT ![c] = @ + 1]
    /\ Return(c, "get_stats", "OK", NullResponse)
    /\ UNCHANGED <<state, mtx, link, wsi, heap, pending, iopc, io, wire, tx,
                   stats, rng, lib, inbound, dangling, ub,
                   teardownVars, extVars>>

(* ------------------------- the scene operations ----------------------- *)
\* lines 1946-1950: the response of a switch that was not needed
AlreadyCurrentResponse == [EmptyResponse EXCEPT !.success = TRUE]

\* a comparison that never finds the scene current
already_current_Never(cache, scene_name) == FALSE

\* line 1942: conn->current_scene && strcmp(conn->current_scene, scene_name) == 0
already_current(cache, scene_name) == cache /= "NULL" /\ cache = scene_name

\* obsws_set_current_scene, lines 1935-1962: the cache is compared under
\* scene_mutex; a scene that is current already is answered without a
\* request, whatever the connection state is; any other one goes into
\* obsws_send_request with timeout_ms 0
CallSetScene(c, scene) ==
    /\ CanCall(c)
    /\ Free("scene")
    /\ calls' = [calls EXCEPT ![c] = @ + 1]
    /\ IF already_current(current_scene, scene)
       THEN /\ Return(c, "set_scene", "OK", AlreadyCurrentResponse)
            /\ UNCHANGED <<heap, rng>>
       ELSE SendRequestEntry(c, "set_scene", "ok", scene)
    /\ UNCHANGED <<state, mtx, link, wsi, pending, iopc, io, wire, tx, stats,
                   lib, inbound, dangling, ub, teardownVars, extVars>>

\* a query that answers from the cache when the cache holds a scene
CallGetScene_Cached(c) ==
    /\ CanCall(c)
    /\ Free("scene")
    /\ calls' = [calls EXCEPT ![c] = @ + 1]
    /\ IF current_scene /= "NULL"
       THEN /\ Return(c, "get_scene", "OK",
                      [NullResponse EXCEPT
                          !.response_data = [to |-> 0, scene |-> current_scene]])
            /\ UNCHANGED <<heap, rng>>
       ELSE SendRequestEntry(c, "get_scene", "ok", "none")
    /\ UNCHANGED <<state, mtx, link, wsi, pending, iopc, io, wire, tx, stats,
                   lib, inbound, dangling, ub, teardownVars, extVars>>

\* obsws_get_current_scene, lines 2022-2028: the query always goes into
\* obsws_send_request with timeout_ms 0; the cache is not read
CallGetScene(c) ==
    /\ CanCall(c)
    /\ calls' = [calls EXCEPT ![c] = @ + 1]
    /\ SendRequestEntry(c, "get_scene", "ok", "none")
    /\ UNCHANGED <<state, mtx, link, wsi, pending, iopc, io, wire, tx, stats,
                   lib, inbound, dangling, ub, teardownVars, extVars>>

\* a test that takes every answer for a confirmation
SceneConfirmed_AnyAnswer(l) == l.result = "OK" /\ ~l.response.null

\* lines 1964 and 2030-2034: the response confirms the operation.  A switch
\* needs result OK and a response with success; a query needs in addition
\* responseData with currentProgramSceneName in it
SceneConfirmed(l) ==
    /\ l.result = "OK"
    /\ ~l.response.null
    /\ l.response.success
    /\ l.op = "get_scene" => l.response.response_data.scene /= "none"

\* the scene name a confirmed operation writes to the cache: the scene the
\* switch asked for (line 1967), the name in the response of the query
\* (line 2041)
SceneLearned(l) ==
    IF l.op = "get_scene" THEN l.response.response_data.scene ELSE l.scene

\* what the operation hands to its caller: obsws_set_current_scene the
\* response (lines 1973-1977); obsws_get_current_scene frees the response
\* (lines 2048-2050) and has copied the name into the caller's buffer
\* (lines 2035-2036), kept here as response_data.scene of a null response
SceneHandedOver(l) ==
    IF l.op = "get_scene"
    THEN IF SceneConfirmed(l)
         THEN [NullResponse EXCEPT
                  !.response_data = [to |-> 0, scene |-> SceneLearned(l)]]
         ELSE NullResponse
    ELSE l.response

\* lines 1964-1979 and 2030-2052: a confirmed operation writes the scene to
\* the cache under scene_mutex; the result goes to the caller
SceneAfter(c) ==
    /\ Alive /\ cpc[c] = "scene_after"
    /\ SceneConfirmed(loc[c]) => Free("scene")
    /\ current_scene' = IF SceneConfirmed(loc[c]) THEN SceneLearned(loc[c])
                        ELSE current_scene
    /\ Return(c, loc[c].op, loc[c].result, SceneHandedOver(loc[c]))
    /\ UNCHANGED <<state, mtx, link, wsi, heap, pending, iopc, io, wire, tx,
                   stats, rng, lib, calls, inbound, dangling, ub,
                   teardownVars, hs, obs_scene, send_buffer, authcall,
                   reconnect, recv, callbacks>>

(* --------------------------- obsws_disconnect ------------------------- *)
\* lines 1549-1558: should_exit is set under state_mutex
DisconnectBegin ==
    /\ Alive /\ mpc = "idle"
    /\ Free("state")
    /\ should_exit' = TRUE
    /\ mpc' = "m_join"
    /\ UNCHANGED <<state, mtx, link, wsi, heap, pending, cpc, loc, last, iopc,
                   io, wire, tx, stats, rng, lib, calls, inbound, dangling,
                   ub, freed, extVars>>

\* lines 1576-1587: every entry of the list is freed, with its response;
\* no entry is completed and no condition variable is signalled
FreeAllRequests(h, list) ==
    [s \in DOMAIN h |->
        IF \E i \in 1..Len(list) : list[i] = s THEN FreeSlot ELSE h[s]]

\* lines 1560-1605: the event thread is joined, the transport is closed
\* and destroyed, the pending entries are freed under requests_mutex, and
\* the buffers, the mutexes and the connection itself are freed
DisconnectFinish ==
    /\ Alive /\ mpc = "m_join"
    /\ iopc = "io_exited"
    /\ Free("requests")
    /\ link' = "destroyed"
    /\ wsi' = FALSE
    /\ heap' = FreeAllRequests(heap, pending)
    /\ dangling' = dangling \cup
          UNION {Danglers(pending[i], NoThread) : i \in 1..Len(pending)}
    /\ pending' = <<>>
    /\ freed' = TRUE
    /\ mpc' = "m_done"
    /\ UNCHANGED <<state, mtx, cpc, loc, last, iopc, io, wire, tx, stats, rng,
                   lib, calls, inbound, ub, should_exit, extVars>>

\* lines 1549-1552, called again with the handle of the first call: the
\* pointer is the caller's copy and is not NULL, so the call goes on to
\* obsws_log(conn, ...) and conn->state_mutex in the freed connection
DisconnectAgain ==
    /\ mpc = "m_done"
    /\ ub' = ub \cup {"conn_use_after_free"}
    /\ mpc' = "m_undefined"
    /\ UNCHANGED <<state, mtx, link, wsi, heap, pending, cpc, loc, last, iopc,
                   io, wire, tx, stats, rng, lib, calls, inbound, dangling,
                   should_exit, freed, extVars>>

(* ------------------------------ the system ---------------------------- *)
SendRequestStep(c) ==
    \/ SrRegister(c)
    \/ \E written \in WriteResults : SrSend(c, written)
    \/ SrStatsLock(c)
    \/ \E timeout_ms \in Timeouts : SrStats(c, timeout_ms)
    \/ SrWaitLock(c)
    \/ SrWoken(c)
    \/ SrRemove(c)

CallerStep(c) ==
    \/ \E args \in ArgKinds : CallSendRequest(c, args)
    \/ SendRequestStep(c)
    \/ CallGetState(c)
    \/ CallGetStats(c)
    \/ \E scene \in Scenes : CallSetScene(c, scene)
    \/ CallGetScene(c)
    \/ SceneAfter(c)
    \/ CallerUseAfterFree(c)

IoLoop ==
    \/ IoTop
    \/ IoServiceIdle
    \/ IoSweepLock
    \/ IoSweep

IoHandlers ==
    \/ IoHelloSend
    \/ IoIdentStats
    \/ IoFill
    \/ IoRxStats

IoStep ==
    \/ IoLoop
    \/ \E ev \in {"ESTABLISHED", "CONNECTION_ERROR", "CLOSED", "WSI_DESTROY"} :
          IoTransportEvent(ev)
    \/ \E m \in ServerFrames : IoReceive(m)
    \/ IoHandlers

Teardown ==
    \/ DisconnectBegin
    \/ DisconnectFinish
    \/ DisconnectAgain

(* One thread of the application and the event thread, from obsws_connect  *)
(* to obsws_disconnect.                                                    *)
Next ==
    \/ \E c \in Callers : CallerStep(c)
    \/ IoStep
    \/ Tick(TickStep)
    \/ ObswsCleanup
    \/ ObswsInit
    \/ Teardown

Spec == Init /\ [][Next]_vars

(* The handshake: transport events and frames of every kind in any order,  *)
(* while a thread of the application calls obsws_send_request.             *)
NextHandshake ==
    \/ \E c \in Callers : \E args \in ArgKinds : CallSendRequest(c, args)
    \/ \E c \in Callers : SendRequestStep(c)
    \/ IoStep
    \/ Tick(TickStep)

SpecHandshake == Init /\ [][NextHandshake]_vars

(* A connection whose handshake is over: Hello and Identified have been    *)
(* handled and Identify has been written.                                  *)
Connected ==
    /\ state = "Connected"
    /\ mtx = [l \in LockNames |-> NoThread]
    /\ link = "open"
    /\ wsi = TRUE
    /\ pending = <<>>
    /\ iopc = "io_top"
    /\ io = IoIdle
    /\ wire = {}
    /\ tx = [frames |-> 1, bytes |-> IdentifyLen]
    /\ stats = [messages_sent |-> 0, bytes_sent |-> 0,
                messages_received |-> 2, bytes_received |-> 2 * InboundLen,
                connected_since |-> Later(SweepAge, TickStep),
                reconnect_count |-> 0]
    /\ rng = 0
    /\ lib = [initialized |-> TRUE, same_second |-> TRUE]
    /\ inbound = 2
    /\ dangling = {}
    /\ ub = {}
    /\ should_exit = FALSE
    /\ mpc = "idle"
    /\ freed = FALSE
    /\ current_scene = "NULL"
    /\ hs = NoHandshake(TRUE)
    /\ obs_scene = "A"
    /\ send_buffer = NoFrame
    /\ authcall = NoAuthCall
    /\ reconnect = NoReconnect(ReconnectDelayDefault)
    /\ recv = NoReceive
    /\ callbacks = [NoCallbacks EXCEPT
                      !.state_callback = <<"Authenticating", "Connected">>]

InitConnected == Connected /\ Threads(NCallers)

(* Concurrent obsws_send_request calls on a Connected connection, the      *)
(* server answering in any order, the event thread delivering and sweeping.*)
NextReq ==
    \/ \E c \in Callers : \E args \in ArgKinds : CallSendRequest(c, args)
    \/ \E c \in Callers : SendRequestStep(c)
    \/ IoLoop
    \/ \E m \in Answers : IoReceive(m)
    \/ IoFill
    \/ IoRxStats
    \/ Tick(TickStep)

SpecReq == InitConnected /\ [][NextReq]_vars

(* Concurrent calls of every kind on a Connected connection while the      *)
(* event thread handles responses and events and sweeps.                   *)
\* the frames of a server that confirms every request and reports scene "A"
Confirming ==
    {m \in ServerFrames : \/ m.op = "RequestResponse" /\ m.has_id /\ m.result
                          \/ m.op = "Event" /\ m.scene = "A"}

NextLocks ==
    \/ \E c \in Callers : CallSendRequest(c, "ok")
    \/ \E c \in Callers : SrRegister(c)
    \/ \E c \in Callers : SrSend(c, "ok")
    \/ \E c \in Callers : SrStatsLock(c)
    \/ \E c \in Callers : SrStats(c, 0)
    \/ \E c \in Callers : SrWaitLock(c)
    \/ \E c \in Callers : SrWoken(c)
    \/ \E c \in Callers : SrRemove(c)
    \/ \E c \in Callers : CallGetState(c)
    \/ \E c \in Callers : CallGetStats(c)
    \/ \E c \in Callers : CallSetScene(c, "A")
    \/ \E c \in Callers : SceneAfter(c)
    \/ IoLoop
    \/ \E m \in Confirming : IoReceive(m)
    \/ IoFill
    \/ IoRxStats
    \/ Tick(TickStep)

SpecLocks == InitConnected /\ [][NextLocks]_vars

(* Callers blocked in obsws_send_request while the application tears the   *)
(* connection down, once and again.                                        *)
NextTeardown ==
    \/ \E c \in Callers : CallSendRequest(c, "ok")
    \/ \E c \in Callers : SendRequestStep(c)
    \/ \E c \in Callers : CallerUseAfterFree(c)
    \/ IoLoop
    \/ Tick(TickStep)
    \/ Teardown

SpecTeardown == InitConnected /\ [][NextTeardown]_vars

(* Registrations while the library is cleaned up and initialised again.    *)
NextIds ==
    \/ \E c \in Callers : CallSendRequest(c, "ok")
    \/ \E c \in Callers : SendRequestStep(c)
    \/ IoLoop
    \/ Tick(TickStep)
    \/ ObswsCleanup
    \/ ObswsInit

SpecIds == InitConnected /\ [][NextIds]_vars

(* One caller more than OBSWS_MAX_PENDING_REQUESTS, each entering          *)
(* obsws_send_request once the caller before it waits for its response;    *)
(* the server is silent.                                                   *)
InitTable == Connected /\ Threads(OBSWS_MAX_PENDING_REQUESTS + 1)

Turn(c) == IF c = 1 THEN TRUE ELSE cpc[c - 1] = "sr_waiting"

NextTable ==
    \/ \E c \in Callers : Turn(c) /\ CallSendRequest(c, "ok")
    \/ \E c \in Callers : Turn(c) /\ SrRegister(c)
    \/ \E c \in Callers : Turn(c) /\ SrSend(c, "ok")
    \/ \E c \in Callers : Turn(c) /\ SrStatsLock(c)
    \/ \E c \in Callers : Turn(c) /\ SrStats(c, 0)
    \/ \E c \in Callers : Turn(c) /\ SrWaitLock(c)

SpecTable == InitTable /\ [][NextTable]_vars

(* Scene switches and scene queries on a Connected connection while OBS    *)
(* reports scene changes, answers in time, and in the end closes the       *)
(* connection.                                                             *)
SceneEvents == {m \in Unsolicited : m.op = "Event"}

NextScene ==
    \/ \E c \in Callers : \E scene \in Scenes : CallSetScene(c, scene)
    \/ \E c \in Callers : CallGetScene(c)
    \/ \E c \in Callers : SrRegister(c)
    \/ \E c \in Callers : SrSend(c, "ok")
    \/ \E c \in Callers : SrStatsLock(c)
    \/ \E c \in Callers : SrStats(c, 0)
    \/ \E c \in Callers : SrWaitLock(c)
    \/ \E c \in Callers : SrWoken(c)
    \/ \E c \in Callers : SrRemove(c)
    \/ \E c \in Callers : SceneAfter(c)
    \/ IoLoop
    \/ \E m \in Answers \cup SceneEvents : IoReceive(m)
    \/ IoTransportEvent("CLOSED")
    \/ IoFill
    \/ IoRxStats

SpecScene == InitConnected /\ [][NextScene]_vars

(* The handshake of a connection that was configured without a password.   *)
InitNoPassword == InitConnWith(FALSE, ReconnectDelayDefault) /\ Threads(NHandshakeCallers)

SpecAuth == InitNoPassword /\ [][NextHandshake]_vars

(* The send section step by step: concurrent callers write requests while  *)
(* the event thread answers a Hello with Identify.                         *)
Hellos == {m \in Unsolicited : m.op = "Hello"}

NextWrite ==
    \/ \E c \in Callers : CallSendRequest(c, "ok")
    \/ \E c \in Callers : SrRegister(c)
    \/ \E c \in Callers : SrCopy(c)
    \/ \E c \in Callers : \E written \in WriteResults : SrWrite(c, written)
    \/ \E c \in Callers : SrStatsLock(c)
    \/ \E c \in Callers : SrStats(c, 0)
    \/ \E c \in Callers : SrRemove(c)
    \/ IoLoop
    \/ \E m \in Hellos : IoReceive(m)
    \/ IoHelloCopy
    \/ IoHelloWrite
    \/ IoRxStats

SpecWrite == InitConnected /\ [][NextWrite]_vars

(* The authentication string of Identify: handle_hello_message, about to   *)
(* build Identify for a Hello that requires authentication, calls          *)
(* generate_auth_response.                                                 *)
\* the state in which handle_hello_message reaches line 669, the first
\* frame of the connection being a Hello with a challenge and a salt
Greeted ==
    /\ state = "Authenticating"
    /\ mtx = [l \in LockNames |-> NoThread]
    /\ link = "open"
    /\ wsi = TRUE
    /\ pending = <<>>
    /\ iopc = "io_hello_send"
    /\ io = IoIdle
    /\ wire = {}
    /\ tx = [frames |-> 0, bytes |-> 0]
    /\ stats = [messages_sent |-> 0, bytes_sent |-> 0,
                messages_received |-> 0, bytes_received |-> 0,
                connected_since |-> Later(SweepAge, TickStep),
                reconnect_count |-> 0]
    /\ rng = 0
    /\ lib = [initialized |-> TRUE, same_second |-> TRUE]
    /\ inbound = 1
    /\ dangling = {}
    /\ ub = {}
    /\ should_exit = FALSE
    /\ mpc = "idle"
    /\ freed = FALSE
    /\ current_scene = "NULL"
    /\ hs = [auth_required |-> TRUE, challenge |-> "set", salt |-> "set",
             password |-> TRUE, authentication |-> TRUE]
    /\ obs_scene = "A"
    /\ send_buffer = NoFrame
    /\ authcall = NoAuthCall
    /\ reconnect = NoReconnect(ReconnectDelayDefault)
    /\ recv = NoReceive
    /\ callbacks = [NoCallbacks EXCEPT
                      !.state_callback = <<"Connecting", "Authenticating">>]

InitToken == Greeted /\ Threads(NHandshakeCallers)

NextToken ==
    \/ \E password \in Passwords : \E salt \in Salts :
          \E challenge \in Challenges :
             CallGenerateAuthResponse(password, salt, challenge)
    \/ GenerateAuthSecret
    \/ GenerateAuthResponse
    \/ IdentifyAddAuthentication

SpecToken == InitToken /\ [][NextToken]_vars

(* One caller in obsws_send_request while the server answers late and     *)
(* sends a response to a request that was never made.                      *)
InitStray == Connected /\ Threads(NHandshakeCallers)

NextStray ==
    \/ \E c \in Callers : CallSendRequest(c, "ok")
    \/ \E c \in Callers : SendRequestStep(c)
    \/ IoLoop
    \/ \E m \in Answers \cup {Stray} : IoReceive(m)
    \/ IoFill
    \/ IoRxStats
    \/ Tick(TickStep)

SpecStray == InitStray /\ [][NextStray]_vars

(* One scene switch or scene query at a time while OBS confirms or         *)
(* refuses, answers late or not at all, and reports a scene change.        *)
NextSwitch ==
    \/ \E c \in Callers : \E scene \in Scenes : CallSetScene(c, scene)
    \/ \E c \in Callers : CallGetScene(c)
    \/ \E c \in Callers : SrRegister(c)
    \/ \E c \in Callers : \E written \in WriteResults : SrSend(c, written)
    \/ \E c \in Callers : SrStatsLock(c)
    \/ \E c \in Callers : SrStats(c, 0)
    \/ \E c \in Callers : SrWaitLock(c)
    \/ \E c \in Callers : SrWoken(c)
    \/ \E c \in Callers : SrRemove(c)
    \/ \E c \in Callers : SceneAfter(c)
    \/ IoLoop
    \/ \E m \in Answers \cup SceneEvents : IoReceive(m)
    \/ IoFill
    \/ IoRxStats
    \/ Tick(TickStep)

SpecSwitch == InitStray /\ [][NextSwitch]_vars

(* The handshake of connections configured with different initial          *)
(* reconnect delays.                                                       *)
ReconnectDelays == {250, ReconnectDelayDefault}

InitIdentified ==
    /\ \E d \in ReconnectDelays : InitConnWith(TRUE, d)
    /\ Threads(NHandshakeCallers)

SpecIdentified == InitIdentified /\ [][NextHandshake]_vars

(* Messages that reach the receive callback in fragments of every length   *)
(* up to the capacity of the buffer, on a Connected connection.            *)
FragmentLens == 1..RecvBufferSize

NextReceive ==
    \/ \E len \in FragmentLens : \E final \in BOOLEAN : \E m \in SceneEvents :
          LwsReceive(len, final, m)
    \/ IoLoop
    \/ IoRxStats

SpecReceive == InitStray /\ [][NextReceive]_vars

(* Events of every kind, with and without an eventType, among frames of    *)
(* other opcodes, from the moment the transport is connecting.             *)
EventFrames ==
    SceneEvents
        \cup {Msg("Event"),
              [Msg("Event") EXCEPT !.etype = "InputMuteStateChanged"],
              Msg("Identified"), Msg("unparsable"), Msg("RequestResponse")}

NextEvent ==
    \/ IoLoop
    \/ \E ev \in {"ESTABLISHED", "CONNECTION_ERROR", "CLOSED", "WSI_DESTROY"} :
          IoTransportEvent(ev)
    \/ \E m \in EventFrames : IoReceive(m)
    \/ IoIdentStats
    \/ IoRxStats

SpecEvent == Init /\ [][NextEvent]_vars

(* The handshake against a server whose Hello may carry an authentication  *)
(* object without challenge or salt, and that may send Hello again.        *)
HelloFrames ==
    {[Msg("Hello") EXCEPT !.auth = a] : a \in {"none", "challenge", "partial"}}
        \cup {Msg("Identified")}

NextHello ==
    \/ IoLoop
    \/ \E ev \in {"ESTABLISHED", "CLOSED"} : IoTransportEvent(ev)
    \/ \E m \in HelloFrames : IoReceive(m)
    \/ IoHelloSend
    \/ IoIdentStats
    \/ IoRxStats
    \/ Tick(TickStep)

SpecHello == Init /\ [][NextHello]_vars

(* The handshake of an application that has registered a log callback and  *)
(* turns the debug output up and down.                                     *)
NextDebug ==
    \/ NextHello
    \/ \E level \in {"NONE", "HIGH"} : obsws_set_debug_level(level)

SpecDebug == Init /\ [][NextDebug]_vars

(* Teardown under a fair scheduler: no thread that can take a step is      *)
(* kept from running for ever.                                             *)
NextStop ==
    \/ \E c \in Callers : CallSendRequest(c, "ok")
    \/ \E c \in Callers : SendRequestStep(c)
    \/ IoLoop
    \/ \E m \in Answers : IoReceive(m)
    \/ IoFill
    \/ IoRxStats
    \/ Tick(TickStep)
    \/ DisconnectBegin
    \/ DisconnectFinish

IoRuns == IoLoop \/ IoFill \/ IoRxStats

SpecStop ==
    /\ InitStray /\ [][NextStop]_vars
    /\ WF_vars(IoRuns)
    /\ WF_vars(DisconnectFinish)
    /\ \A c \in 1..NHandshakeCallers : WF_vars(SendRequestStep(c))

(* One caller in obsws_send_request under a fair scheduler and a clock     *)
(* that goes on, while the server answers or not and the transport closes. *)
(* A thread that waits for a mutex which is released again and again gets  *)
(* it in the end.                                                          *)
NextWait ==
    \/ \E c \in Callers : CallSendRequest(c, "ok")
    \/ \E c \in Callers : SendRequestStep(c)
    \/ IoLoop
    \/ \E ev \in {"CLOSED", "WSI_DESTROY"} : IoTransportEvent(ev)
    \/ \E m \in Answers : IoReceive(m)
    \/ IoFill
    \/ IoRxStats
    \/ Tick(TickStep)

SpecWait ==
    /\ InitStray /\ [][NextWait]_vars
    /\ WF_vars(IoRuns)
    /\ WF_vars(Tick(TickStep))
    /\ \A c \in 1..NHandshakeCallers : SF_vars(SendRequestStep(c))

(* ====================================================================== *)
(*                              properties                                *)
(* ====================================================================== *)
ThreadIds == {T(c) : c \in Callers} \cup {IoThread}

\* a call of obsws_send_request by c has returned
Returned(c) == last[c].op = "send" /\ last[c].result \notin {"none", "pending"}

(* C1 -- correlation correctness: a call of obsws_send_request that        *)
(* returns OK has received the response to its own request, never the      *)
(* response the server gave to the request of another caller.              *)
C1_CorrelationCorrectness ==
    \A c \in Callers :
        Returned(c) /\ last[c].result = "OK" =>
            \A d \in Callers \ {c} : last[c].response.response_data.to /= d

(* C2 -- precondition enforcement: a call of obsws_send_request with valid *)
(* arguments made while the state is not Connected returns NotConnected in *)
(* that step, and the transport, the pending list, the heap of entries and *)
(* the statistics are left as they were.                                   *)
SendRequestCalled(c) ==
    cpc[c] = "idle" /\ calls'[c] = calls[c] + 1 /\ last'[c].op = "send"

C2_PreconditionEnforcement ==
    [][\A c \in Callers :
          (/\ SendRequestCalled(c)
           /\ state /= "Connected"
           /\ last'[c].result /= "InvalidParam")
          => /\ cpc'[c] = "idle"
             /\ last'[c].result = "NotConnected"
             /\ UNCHANGED <<tx, wire, pending, heap, stats>>]_vars

C2_Witness ==
    \E c \in Callers :
        /\ last[c].result = "NotConnected"
        /\ state \in {"Connecting", "Authenticating"}
        /\ tx.bytes = 0 /\ pending = <<>>

(* C3 -- timeout exactness: a call whose request the server never answered *)
(* returns Timeout, and no entry with its id is left in the pending list.  *)
Unanswered(c) ==
    \E w \in wire : w.request_id = last[c].request_id /\ w.from = c

C3_TimeoutExactness ==
    \A c \in Callers :
        Returned(c) /\ Unanswered(c) =>
            /\ last[c].result = "Timeout"
            /\ \A i \in 1..Len(pending) :
                   heap[pending[i]].request_id /= last[c].request_id

(* C4 -- wake on teardown: once obsws_disconnect has run, no caller is     *)
(* still blocked in obsws_send_request on an entry the disconnect has      *)
(* released without having been woken.                                     *)
C4_WakeOnTeardown ==
    freed => \A c \in Callers :
                 cpc[c] = "sr_waiting" => loc[c].signalled

(* C5 -- idempotent teardown: a second obsws_disconnect on the same handle *)
(* takes no lock, joins nothing, releases nothing, and reads nothing of    *)
(* the connection that the first call freed.                               *)
C5_IdempotentTeardown ==
    [][mpc = "m_done" /\ mpc' /= "m_done"
          => /\ "conn_use_after_free" \notin ub'
             /\ UNCHANGED <<mtx, heap, pending, link, wsi, should_exit, freed>>]_vars

(* C6 -- bounded table: the pending list never holds more than             *)
(* OBSWS_MAX_PENDING_REQUESTS entries.                                     *)
C6_BoundedTable == Len(pending) <= OBSWS_MAX_PENDING_REQUESTS

(* C7 -- unique live ids: no two entries of the pending list carry the     *)
(* same request id.                                                        *)
C7_UniqueLiveIds ==
    \A i, j \in 1..Len(pending) :
        i /= j => heap[pending[i]].request_id /= heap[pending[j]].request_id

(* C8 -- lock discipline, as the specification states it: no thread holds  *)
(* two of the connection's mutexes at the same time.                       *)
C8_LockDiscipline == \A t \in ThreadIds : Cardinality(Held(t)) <= 1

(* C8 -- lock discipline, as the code keeps it: a thread holds at most one *)
(* of the connection's mutexes, except a caller inside the send section of *)
(* obsws_send_request, which holds send_mutex and takes stats_mutex inside *)
(* it for the counters; no other pair is ever held, and the event thread   *)
(* never holds two.  The statement is about a connection that exists: once *)
(* obsws_disconnect has destroyed the mutexes under a thread, or the        *)
(* process has faulted, what a thread holds is no longer defined.           *)
C8_LockDisciplineAmended ==
    Alive =>
        /\ Cardinality(Held(IoThread)) <= 1
        /\ \A c \in Callers :
              \/ Cardinality(Held(T(c))) <= 1
              \/ /\ Held(T(c)) = {"send", "stats"}
                 /\ cpc[c] = "sr_stats"

C8_Witness ==
    /\ Alive
    /\ \E c \in Callers : Held(T(c)) = {"send", "stats"} /\ cpc[c] = "sr_stats"

(* The wait-for graph.  A lock is a connection mutex or the mutex of a     *)
(* pending entry; a thread wants the lock its next step takes.             *)
ConnLock(l) == <<"conn", l, NoSlot>>
EntryLock(s) == <<"entry", "", s>>
NoLock == <<"none", "", NoSlot>>

Owner(k) ==
    IF k[1] = "conn" THEN mtx[k[2]]
    ELSE IF k[1] = "entry" THEN heap[k[3]].mutex
    ELSE NoThread

CallerWants(c) ==
    CASE cpc[c] \in {"sr_reg", "sr_rm"} -> ConnLock("requests")
      [] cpc[c] = "sr_send" -> ConnLock("send")
      [] cpc[c] = "sr_stats_lock" -> ConnLock("stats")
      [] cpc[c] = "sr_wait_lock" -> EntryLock(loc[c].req)
      [] cpc[c] = "sr_waiting" /\ WaitResults(loc[c]) /= {} ->
             EntryLock(loc[c].req)
      [] cpc[c] = "scene_after" -> ConnLock("scene")
      [] OTHER -> NoLock

IoWants ==
    CASE iopc = "io_top" -> ConnLock("state")
      [] iopc = "io_hello_send" -> ConnLock("send")
      [] iopc \in {"io_ident_stats", "io_rx_stats"} -> ConnLock("stats")
      [] iopc = "io_fill" -> EntryLock(io.req)
      [] iopc = "io_sweep_lock" -> ConnLock("requests")
      [] iopc = "io_sweep" /\ StalePositions /= {} ->
             EntryLock(pending[First(StalePositions)])
      [] OTHER -> NoLock

Wants(t) == IF t = IoThread THEN IoWants ELSE CallerWants(t[2])

\* the thread t waits for: the owner of the lock it wants, when another
\* thread holds it
WaitsFor(t) == IF Owner(Wants(t)) = t THEN NoThread ELSE Owner(Wants(t))

RECURSIVE Follow(_, _)
Follow(t, n) ==
    IF n = 0 \/ t = NoThread THEN t ELSE Follow(WaitsFor(t), n - 1)

(* C9 -- deadlock freedom: in no reachable state is there a cycle of       *)
(* threads each waiting for a lock, a connection mutex or the mutex of a   *)
(* pending entry, that the next thread of the cycle holds.                 *)
C9_DeadlockFreedom ==
    \A t \in ThreadIds :
        \A n \in 1..Cardinality(ThreadIds) : Follow(t, n) /= t

\* a caller waits for requests_mutex while the sweep holds it and
\* completes a stale entry
C9_Witness ==
    \E c \in Callers :
        /\ WaitsFor(T(c)) = IoThread
        /\ iopc = "io_sweep" /\ StalePositions /= {}

(* C10 -- state machine: every change of the connection state is one of    *)
(* Disconnected->Connecting, Connecting->Authenticating,                   *)
(* Authenticating->Connected, any state->Error, any state->Disconnected.   *)
AllowedTransitions ==
    {<<"Disconnected", "Connecting">>, <<"Connecting", "Authenticating">>,
     <<"Authenticating", "Connected">>}
        \cup {<<s, "Error">> : s \in States}
        \cup {<<s, "Disconnected">> : s \in States}

C10_StateMachine ==
    [][state' /= state => <<state, state'>> \in AllowedTransitions]_vars

(* C11 -- declined response: a call of obsws_send_request on a Connected   *)
(* connection with a request type and a NULL response pointer allocates    *)
(* the entry of its request and goes on to register and transmit it; it    *)
(* does not return in that step.                                           *)
C11_DeclinedResponse ==
    [][\A c \in Callers :
          CallSendRequest(c, "null_response") /\ state = "Connected"
              => /\ cpc'[c] = "sr_reg"
                 /\ heap' /= heap
                 /\ last'[c].result = "pending"]_vars

SceneChanged(X) ==
    [Msg("Event") EXCEPT !.etype = "CurrentProgramSceneChanged", !.scene = X]

SceneUpdate ==
    \/ \E X \in Scenes : IoReceive(SceneChanged(X))
    \/ \E c \in Callers : SceneAfter(c) /\ SceneConfirmed(loc[c])

QueryAnswered(w) == w.op = "get_scene" /\ IoReceive(Answer(w, TRUE))

QueryReturns(c) ==
    SceneAfter(c) /\ loc[c].op = "get_scene" /\ SceneConfirmed(loc[c])

C14_SetSceneNotConnected ==
    [][\A c \in Callers : \A X \in Scenes :
          CallSetScene(c, X) /\ state /= "Connected"
              => /\ cpc'[c] = "scene_after" \/ last'[c].result = "NotConnected"
                 /\ cpc'[c] = "scene_after" => loc'[c].result = "NotConnected"]_vars

(* The event thread under a fair scheduler: it is never kept from running  *)
(* for ever.                                                               *)
SpecReconnect == Init /\ [][NextHandshake]_vars /\ WF_vars(IoStep)

\* the transport of a connection has closed or has failed
Dropped == link \in {"closed", "failed"}

(* C15 -- automatic reconnection: on a connection with auto_reconnect      *)
(* enabled, after the transport has closed or failed the engine eventually *)
(* starts a new attempt by itself: the state comes to Connecting again.    *)
C15_AutoReconnect == (auto_reconnect /\ Dropped) ~> (state = "Connecting")

(* C16 -- resilience to one bad frame: the handling of an inbound frame    *)
(* that does not decode or has no opcode leaves the connection state, the  *)
(* pending list, its entries and the scene cache as they were and wakes no *)
(* waiter; the transport stays open and the event thread goes back to its  *)
(* loop, so that the frames that follow are received and routed.           *)
C16_BadFrameResilience ==
    [][IoReceive(Msg("unparsable"))
          => /\ UNCHANGED <<state, pending, heap, current_scene, cpc, loc,
                            link, wsi>>
             /\ iopc' = "io_sweep_lock"]_vars

\* Hello is being handled after a frame that did not decode: of two frames
\* received, the first one was dropped before the statistics
C16_Witness ==
    /\ iopc = "io_hello_send" /\ state = "Authenticating"
    /\ inbound = 2 /\ stats.messages_received = 0
    /\ link = "open"

(* C17 -- a refusal by the server is not a call error: a caller that finds *)
(* its entry completed leaves obsws_send_request with OK and the response  *)
(* of the entry, whose success flag is the result the server gave (false   *)
(* for a refused request); the call returns what it left the wait with;    *)
(* and the only error codes a call returns are the local ones:             *)
(* InvalidParam, NotConnected, OutOfMemory, SendFailed and Timeout, each   *)
(* of them without a response.                                             *)
LocalFailures ==
    {"InvalidParam", "NotConnected", "OutOfMemory", "SendFailed", "Timeout"}

\* c leaves the wait without a timeout
Completion(c) ==
    /\ cpc[c] \in {"sr_wait_lock", "sr_waiting"} /\ cpc'[c] = "sr_rm"
    /\ loc'[c].result /= "Timeout"

\* the event thread fills an entry from a response that carries a status
Filled ==
    /\ iopc = "io_fill" /\ iopc' = "io_rx_stats" /\ io.msg.has_status
    /\ heap' /= heap

C17_RemoteFailure ==
    /\ [](\A c \in Callers : Returned(c) =>
             /\ last[c].result \in LocalFailures \cup {"OK"}
             /\ last[c].result = "OK" <=> ~last[c].response.null)
    /\ [][/\ Filled => /\ heap'[io.req].response.success = io.msg.result
                       /\ heap'[io.req].completed
          /\ \A c \in Callers :
                /\ Completion(c) =>
                      /\ loc'[c].result = "OK"
                      /\ loc'[c].response = heap[loc[c].req].response
                /\ cpc[c] = "sr_rm" /\ cpc'[c] = "idle" =>
                      /\ last'[c].result = loc[c].result
                      /\ last'[c].response = loc[c].response]_vars

\* a call has returned OK with the response to a request the server refused
C17_Witness ==
    \E c \in Callers :
        /\ Returned(c) /\ last[c].result = "OK"
        /\ ~last[c].response.null /\ ~last[c].response.success
        /\ last[c].response.status_code = 100
        /\ last[c].response.response_data.to = c

(* C18 -- response ownership: the response object of a call is owned by    *)
(* the caller exactly when the call returned OK, and is released by the    *)
(* engine otherwise.  A caller that takes the response leaves none in the  *)
(* entry (never both); and outside obsws_disconnect, which frees each      *)
(* response with its entry, an entry is freed only when its response has   *)
(* been taken out of it -- free(entry) with a response still in it leaves  *)
(* an object that no one owns and no one releases (never neither).         *)
EntryFreed(s) == heap[s].alloc /\ ~heap'[s].alloc /\ ~freed'

C18_ResponseOwnership ==
    /\ [](\A c \in Callers : Returned(c) =>
             (last[c].result = "OK" <=> ~last[c].response.null))
    /\ [][/\ \A c \in Callers :
                Completion(c) => heap'[loc[c].req].response.null
          /\ \A s \in Slots : EntryFreed(s) => heap[s].response.null]_vars

(* C19 -- write serialization: the copy of a frame into conn->send_buffer  *)
(* and the write of the buffer to the transport are one critical section   *)
(* of send_mutex.  A thread that is about to write owns send_mutex and     *)
(* finds its own frame whole in the buffer, no two threads are between     *)
(* their copy and their write at once, and the server comes to hold the    *)
(* requests that were written and no other.                                *)
Writers ==
    {T(c) : c \in {d \in Callers : cpc[d] = "sr_write"}}
        \cup (IF iopc = "io_hello_write" THEN {IoThread} ELSE {})

C19_WriteSerialization ==
    /\ Cardinality(Writers) <= 1
    /\ \A t \in Writers : mtx["send"] = t
    /\ \A c \in Callers : cpc[c] = "sr_write" => send_buffer = RequestFrame(c)
    /\ iopc = "io_hello_write" => send_buffer = IdentifyFrame
    /\ \A w \in wire : /\ loc[w.from].request_id = w.request_id
                       /\ cpc[w.from] \in {"sr_stats_lock", "sr_stats",
                                           "sr_wait_lock"}

\* a caller waits for send_mutex while the event thread is between its
\* copy of Identify and its write, after another caller's request went out
C19_Witness ==
    /\ iopc = "io_hello_write"
    /\ \E c \in Callers : cpc[c] = "sr_send"
    /\ wire /= {}

(* C20 -- authentication without a password: on a connection configured    *)
(* without a password, the handling of a Hello that requires               *)
(* authentication sets the state to Authenticating and builds an Identify  *)
(* without an authentication string, and that Identify is what is written; *)
(* and the state becomes Connected in no step but the handling of an       *)
(* Identified message: until one arrives it is Authenticating, or          *)
(* Disconnected or Error once the transport has closed or failed.          *)
HelloRequiringAuth == IoReceive([Msg("Hello") EXCEPT !.auth = "challenge"])

C20_AuthWithoutPassword ==
    /\ [](~hs.password => ~hs.authentication)
    /\ [][/\ HelloRequiringAuth /\ ~hs.password
              => /\ state' = "Authenticating"
                 /\ hs'.auth_required /\ ~hs'.authentication
                 /\ iopc' = "io_hello_send"
          /\ iopc = "io_hello_send" /\ iopc' /= iopc
              => /\ tx'.frames = tx.frames + 1
                 /\ hs' = hs
          /\ state' = "Connected" /\ state /= "Connected"
              => IoReceive(Msg("Identified"))
          /\ state = "Authenticating" /\ state' /= state
              => state' \in {"Connected", "Disconnected", "Error"}]_vars

\* Identify has gone out without an authentication string on a connection
\* whose server requires one, and the state is Authenticating
C20_Witness ==
    /\ ~hs.password /\ hs.auth_required /\ ~hs.authentication
    /\ state = "Authenticating" /\ tx.frames = 1 /\ iopc = "io_top"
    /\ inbound = MaxInbound

(* C21 -- authentication token: for every password, salt and challenge,    *)
(* the authentication string placed in Identify is                         *)
(* base64(sha256(base64(sha256(password ++ salt)) ++ challenge)); for      *)
(* password "testpass", salt "salt123" and challenge "chal456" it is the   *)
(* string "aevcl5nZvjLhSzyJsCmDTRhnwrKTJ30+vyk80xhsCfA=".                  *)
GoldenToken ==
    <<97, 101, 118, 99, 108, 53, 110, 90, 118, 106, 76, 104, 83, 122, 121,
      74, 115, 67, 109, 68, 84, 82, 104, 110, 119, 114, 75, 84, 74, 51, 48,
      43, 118, 121, 107, 56, 48, 120, 104, 115, 67, 102, 65, 61>>

TestVector ==
    /\ authcall.password = TestPassword
    /\ authcall.salt = TestSalt
    /\ authcall.challenge = TestChallenge

C21_AuthToken ==
    authcall.pc = "added" =>
        /\ authcall.authentication =
              Base64(Sha256(Base64(Sha256(authcall.password \o authcall.salt))
                            \o authcall.challenge))
        /\ TestVector => authcall.authentication = GoldenToken

\* Identify carries the token of the test vector
C21_Witness ==
    /\ authcall.pc = "added" /\ TestVector
    /\ authcall.authentication = GoldenToken
    /\ hs.authentication /\ state = "Authenticating"

(* C22 -- sent-traffic counters: stats.messages_sent is the number of      *)
(* frames written to the transport on this connection, Identify and        *)
(* requests alike, and stats.bytes_sent is their total length.  The        *)
(* counters are compared whenever no caller is between its write and the   *)
(* update of the counters that follows it in the same send section.        *)
C22_SentCounters ==
    (\A c \in Callers : cpc[c] \notin {"sr_stats_lock", "sr_stats"}) =>
        /\ stats.messages_sent = tx.frames
        /\ stats.bytes_sent = tx.bytes

(* C23 -- completed beats timeout: a caller of obsws_send_request that     *)
(* resumes from its wait and finds its entry marked complete returns OK    *)
(* with the response of the entry, however the arrival of the response     *)
(* and the expiry of the deadline interleave; it returns Timeout only when *)
(* the entry is not complete as it resumes.                                *)
Resumes(c) ==
    /\ cpc[c] \in {"sr_wait_lock", "sr_waiting"} /\ cpc'[c] = "sr_rm"

C23_CompletedBeatsTimeout ==
    [][\A c \in Callers :
          Resumes(c) =>
             IF heap[loc[c].req].completed
             THEN /\ loc'[c].result = "OK"
                  /\ loc'[c].response = heap[loc[c].req].response
             ELSE loc'[c].result = "Timeout"]_vars

(* C24 -- sweep postcondition: when a run of cleanup_old_requests ends, no *)
(* entry that was older than the staleness bound of 30 when the run read   *)
(* the clock is left in the pending list;                                  *)
(* each entry the run retired has been given the unsuccessful response     *)
(* "Request timeout", marked complete and broadcast to its waiter; and     *)
(* every entry no older than the bound is as it was, and still listed.     *)
\* the sweep retires the entry in slot old
Retires(old) ==
    /\ IoSweep /\ pending' /= pending
    /\ old = pending[First(StalePositions)]

\* a caller that waits on s has been woken if it was still waiting on the
\* condition variable
Woken(s) ==
    \A c \in Callers :
        cpc[c] = "sr_waiting" /\ loc[c].req = s /\ loc[c].left > 0
            => loc'[c].signalled

C24_SweepPostcondition ==
    [][/\ IoSweepLock
            => io'.stale = {s \in Slots : /\ IsStale(heap[s])
                                          /\ Positions(pending, s) /= {}}
       /\ IoSweep /\ iopc' = "io_top"
            => \A i \in 1..Len(pending') : pending'[i] \notin io.stale
       /\ \A old \in Slots :
            Retires(old) =>
               /\ old \in io.stale
               /\ heap'[old].completed
               /\ ~heap'[old].response.null
               /\ ~heap'[old].response.success
               /\ heap'[old].response.error_message = "Request timeout"
               /\ Woken(old)
               /\ \A s \in Slots \ {old} : heap'[s] = heap[s]
               /\ \A i \in 1..Len(pending) :
                     pending[i] \notin io.stale
                        => \E j \in 1..Len(pending') : pending'[j] = pending[i]
      ]_vars

(* C25 -- unknown or late response: the handling of a response whose       *)
(* requestId is the id of no entry in the pending list (an id that was     *)
(* never issued, or the id of an entry that has been removed) drops the    *)
(* frame: no entry and no list link changes, no waiter is woken, no call   *)
(* is completed, and the handler keeps no entry to work on.                *)
NoEntryWith(request_id) ==
    \A i \in 1..Len(pending) : heap[pending[i]].request_id /= request_id

C25_UnknownResponse ==
    [][\A m \in Answers \cup {Stray} :
          IoReceive(m) /\ NoEntryWith(m.request_id)
             => /\ UNCHANGED <<heap, pending, loc, cpc, last, ub>>
                /\ io' = IoIdle
                /\ iopc' = "io_rx_stats"]_vars

\* a response with an unknown id has been dropped while the caller waits
\* on its entry, which is not complete
C25_Witness ==
    /\ inbound = MaxInbound /\ iopc = "io_rx_stats" /\ io = IoIdle
    /\ \E c \in Callers :
          /\ cpc[c] = "sr_waiting" /\ ~loc[c].signalled
          /\ pending = <<loc[c].req>>
          /\ ~heap[loc[c].req].completed

(* C26 -- the table holds only calls in flight: once a call of             *)
(* obsws_send_request has returned, whatever its outcome, no entry with    *)
(* the id generated for the call is in the pending list; every entry of    *)
(* the list is the entry of a call that has not returned yet.              *)
\* the outcomes of a call that had generated its id and registered an entry
Registered == {"OK", "Timeout", "SendFailed"}

InFlight(s) ==
    \E c \in Callers :
        /\ cpc[c] \notin {"idle", "undefined"}
        /\ loc[c].req = s
        /\ loc[c].request_id = heap[s].request_id

C26_OnlyInFlight ==
    /\ \A c \in Callers :
          Returned(c) /\ last[c].result \in Registered
              => NoEntryWith(last[c].request_id)
    /\ \A c \in Callers :
          Returned(c) => \A i \in 1..Len(pending) : loc[c].req /= pending[i]
    /\ \A i \in 1..Len(pending) : heap[pending[i]].alloc /\ InFlight(pending[i])

(* C27 -- the cache is written only on confirmed success: a call of        *)
(* obsws_set_current_scene(X) that went into obsws_send_request writes X   *)
(* to the scene cache exactly when the request returned OK with a response *)
(* marked successful, and it does so as it returns; when the request       *)
(* returned an error, or OK with the refusal of the server, the call       *)
(* leaves the cache as it is, and so does every earlier step of the call.  *)
Switching(c) == cpc[c] /= "idle" /\ loc[c].op = "set_scene"

C27_CacheOnConfirmedSuccess ==
    [][\A c \in Callers :
          /\ Switching(c) /\ SceneAfter(c) =>
                /\ last'[c].result = loc[c].result
                /\ IF /\ loc[c].result = "OK" /\ ~loc[c].response.null
                      /\ loc[c].response.success
                   THEN current_scene' = loc[c].scene
                   ELSE current_scene' = current_scene
          /\ Switching(c) /\ cpc'[c] /= cpc[c] /\ ~SceneAfter(c) =>
                current_scene' = current_scene]_vars

\* a switch has returned OK with the refusal of the server and the cache
\* is still empty
C27_Witness ==
    \E c \in Callers :
        /\ last[c].op = "set_scene" /\ last[c].result = "OK"
        /\ ~last[c].response.null /\ ~last[c].response.success
        /\ last[c].response.status_code = 100
        /\ current_scene = "NULL"

(* C28 -- the scene query never trusts the cache: a call of                *)
(* obsws_get_current_scene on a Connected connection goes into             *)
(* obsws_send_request whatever the scene cache holds and passes the send   *)
(* section once, where one request frame is written and none anywhere      *)
(* else; the response is filled with the scene name the server sent; and   *)
(* on a successful answer the call hands that name to its caller and       *)
(* overwrites the cache with it.                                           *)
Querying(c) == cpc[c] /= "idle" /\ loc[c].op = "get_scene"

C29_ConfirmationHandling ==
    [][/\ IoReceive(Msg("Identified")) =>
            /\ state' = "Connected"
            /\ iopc' = "io_ident_stats"
       /\ IoIdentStats =>
            /\ state' = "Connected"
            /\ stats'.connected_since = 0
            /\ reconnect'.reconnect_attempts = 0
            /\ reconnect'.current_reconnect_delay =
                  reconnect.reconnect_delay_ms
            /\ reconnect'.reconnect_delay_ms = reconnect.reconnect_delay_ms
      ]_vars

\* an Identified message has been handled, later than the second in which
\* the connection was made, on a connection configured with a delay that is
\* not the default
C29_Witness ==
    /\ iopc = "io_rx_stats" /\ state = "Connected"
    /\ ~lib.same_second /\ stats.connected_since = 0
    /\ reconnect.reconnect_delay_ms /= ReconnectDelayDefault
    /\ reconnect.reconnect_attempts = 0
    /\ reconnect.current_reconnect_delay = reconnect.reconnect_delay_ms


(* C30 -- overflow drops the whole message: a fragment that would overflow *)
(* the receive buffer is not handed to handle_websocket_message, nor is    *)
(* any later fragment of the message it belongs to; a message that         *)
(* arrives whole and fits is handed over from its first byte to its last   *)
(* and decoded.                                                            *)
Overflowed == Len(recv.recv_buffer) /= recv.sent

C30_OverflowDropsMessage ==
    [][\A len \in FragmentLens : \A final \in BOOLEAN : \A m \in SceneEvents :
          LwsReceive(len, final, m) =>
            /\ ~FragmentFits(Len(recv.recv_buffer), len) =>
                  recv'.message = <<>> /\ recv'.recv_buffer = <<>>
            /\ Overflowed => recv'.message = <<>> /\ iopc' = iopc
            /\ ~Overflowed /\ final /\ FragmentFits(Len(recv.recv_buffer), len) =>
                  /\ recv'.message = Bytes(recv.msg, 1, recv.sent + len)
                  /\ current_scene' = m.scene
                  /\ iopc' = "io_rx_stats"
      ]_vars


(* C31 -- receive buffer bound: the receive buffer always holds fewer      *)
(* bytes than its capacity, and it holds none right after the receive      *)
(* callback has handled a final fragment and right after an overflow.      *)
C31_ReceiveBufferBound ==
    /\ [](Len(recv.recv_buffer) < RecvBufferSize)
    /\ [][\A len \in FragmentLens : \A final \in BOOLEAN : \A m \in SceneEvents :
             /\ LwsReceive(len, final, m)
             /\ final \/ ~FragmentFits(Len(recv.recv_buffer), len)
             => recv'.recv_buffer = <<>>
         ]_vars

\* the buffer is one byte short of its capacity, in a message that has not
\* overflowed
C31_Witness ==
    /\ Len(recv.recv_buffer) = RecvBufferSize - 1
    /\ Len(recv.recv_buffer) = recv.sent
    /\ recv.msg > 1


(* C32 -- state notifications: state_callback is called once for each      *)
(* change of the connection state, with the state before and the state     *)
(* after it, and is not called when the state is set to the value it has;  *)
(* the old_state of each call is the new_state of the call before it, and  *)
(* the first old_state is Disconnected.                                    *)
C32_StateNotifications ==
    [][/\ state' /= state =>
            callbacks'.state_callback = <<state, state'>>
       /\ state' = state =>
            callbacks'.state_callback = callbacks.state_callback
       /\ callbacks'.state_callback /= callbacks.state_callback =>
            callbacks'.state_callback[1] =
                IF callbacks.state_callback = <<>> THEN "Disconnected"
                ELSE callbacks.state_callback[2]
      ]_vars

\* a second Hello is being handled on a connection that was Authenticating
\* already: the last call of state_callback is the one of the first Hello
C32_Witness ==
    /\ iopc = "io_hello_send" /\ tx.frames = 1
    /\ state = "Authenticating"
    /\ callbacks.state_callback = <<"Connecting", "Authenticating">>


(* C33 -- event dispatch: the handler of an Event frame that carries an    *)
(* eventType calls event_callback with it, once, and has returned before   *)
(* the event thread handles another message; event_callback is not called  *)
(* for a frame of another opcode or for an Event without an eventType.     *)
C33_EventDispatch ==
    /\ [](callbacks.event_callback /= "none" => iopc = "io_rx_stats")
    /\ [][\A m \in EventFrames :
             IoReceive(m) =>
                /\ callbacks.event_callback = "none"
                /\ callbacks'.event_callback =
                      IF m.op = "Event" THEN m.etype ELSE "none"
         ]_vars

\* the third frame of the connection is an event that is not a scene
\* change, and its handler has called event_callback
C33_Witness ==
    /\ inbound = MaxInbound /\ iopc = "io_rx_stats"
    /\ callbacks.event_callback = "InputMuteStateChanged"
    /\ stats.messages_received = MaxInbound - 1


(* C34 -- teardown terminates: once obsws_disconnect has set should_exit,  *)
(* the event thread leaves its loop, the join completes and                *)
(* obsws_disconnect returns.                                               *)
C34_TeardownTerminates == mpc = "m_join" ~> mpc = "m_done"


(* C35 -- every request call returns: a thread that has called             *)
(* obsws_send_request on a connection that is not being disconnected       *)
(* comes back from the call, whatever the server and the transport do.     *)
C35_EveryCallReturns ==
    \A c \in 1..NHandshakeCallers : cpc[c] /= "idle" ~> cpc[c] = "idle"


(* C36 -- no use after release in completion: the entry that the response  *)
(* handler locks, fills and signals is in the pending list and has not     *)
(* been freed by its caller.                                               *)
C36_NoUseAfterRelease ==
    [][IoFill =>
          /\ heap[io.req].alloc
          /\ \E i \in 1..Len(pending) : pending[i] = io.req
          /\ ~Dangles(IoThread)
      ]_vars


(* C37 -- register before transmit: a call of obsws_send_request has put   *)
(* the entry with its id in the pending list before it writes the frame    *)
(* that carries the id: at the write the entry is listed under that id, or *)
(* the sweep has unlinked and completed it in the meantime; and while a    *)
(* call has not registered its entry, no frame with its id is with the     *)
(* server, so no response to it can be handled.                            *)
Writes(c) == cpc[c] \in {"sr_send", "sr_write"} /\ tx'.frames = tx.frames + 1

\* the entry of c's call has been in the pending list
HasRegistered(c) ==
    /\ heap[loc[c].req].alloc
    /\ heap[loc[c].req].request_id = loc[c].request_id
    /\ \/ \E i \in 1..Len(pending) : pending[i] = loc[c].req
       \/ heap[loc[c].req].completed

C37_RegisterBeforeTransmit ==
    /\ [][\A c \in Callers : Writes(c) => HasRegistered(c)]_vars
    /\ [](\A c \in Callers :
             cpc[c] = "sr_reg" =>
                \A w \in wire :
                    w.from = c => w.request_id /= loc[c].request_id)

\* a frame has been written for an entry that is in the list
C37_Witness ==
    \E c \in Callers :
        /\ cpc[c] = "sr_stats_lock"
        /\ pending /= <<>> /\ pending[1] = loc[c].req
        /\ \E w \in wire : w.from = c /\ w.request_id = loc[c].request_id


(* C38 -- token inputs come from the Hello being answered: whenever the    *)
(* Identify built for a Hello carries an authentication token, the         *)
(* challenge and the salt handed to generate_auth_response were both       *)
(* copied from that Hello, never absent and never left from an earlier one *)
C38_TokenFromThisHello ==
    hs.authentication => hs.challenge = "set" /\ hs.salt = "set"

\* a Hello with challenge and salt has been answered with a token
C38_Witness ==
    /\ iopc = "io_hello_send" /\ hs.authentication
    /\ hs.challenge = "set" /\ hs.salt = "set"


(* C39 -- callbacks run lock-free: whenever a user callback (log, event or *)
(* state) has run, the thread that ran it held none of the connection's    *)
(* locks and no lock of a pending entry at that moment.                    *)
C39_CallbacksLockFree == callbacks.held = {}


(* C40 -- the cache follows the server's order: when no call is inside the *)
(* library and the event thread is between messages, the scene cache, if   *)
(* set, names the scene of the most recent scene update the server sent    *)
(* (a scene-changed event, a confirmed switch or the answer to a query).   *)
Quiescent ==
    /\ \A c \in Callers : cpc[c] = "idle"
    /\ iopc \in {"io_top", "io_service", "io_sweep_lock"}
    /\ wire = {}

C40_CacheFollowsServerOrder ==
    Quiescent /\ current_scene /= "NULL" => current_scene = obs_scene

=============================================================================
